---- MODULE Spec2Model ----
(***************************************************************************)
(* A model of the browser-extension storage engine of                      *)
(* archaeologist/src/storage_api_browser_ext.ts: a typed record store      *)
(* (YekLavStore) over a flat key -> value substrate, and the node, edge,   *)
(* association, activity and ingestion handlers built on top of it.        *)
(*                                                                         *)
(* The substrate is the variable `store`, a function from substrate key    *)
(* strings to values ("lavs").  A handler that awaits the substrate more   *)
(* than once is one action for the call and one action for each substrate  *)
(* call it awaits, so that the calls of other handlers come in between.    *)
(***************************************************************************)
EXTENDS Integers, Sequences, FiniteSets, TLC

\* ------------------------------------------------------------ bounds
\* Number of node ids generateNid() hands out in one behaviour.
MaxNodes == 2
\* Number of edge ids generateEid() hands out in one behaviour.
MaxEdges == 2
\* Number of nodes created where the listing order is examined.
MaxListed == 3
\* Number of nodes created where the content round trip is examined.
MaxContentNodes == 1
\* Largest value the clock (unixtime.now()) reaches in one behaviour.
MaxClock == 2
\* Number of calls that are in flight at the same time.
MaxPending == 2
\* Largest watermark a caller passes to external.ingestion.advance.
MaxWatermark == 2
\* Number of activity reports (visits and attention events) stored per origin.
MaxActivities == 3
\* Number of ids in one node.batch.get request.
MaxBatch == 2
\* Overlapping association calls start while the buckets hold fewer entries
\* than this (calls made alone are not limited).
MaxOverlapEntries == 2
\* Number of calls made in one behaviour where calls of any kind overlap any
\* number of times; elsewhere, a call is made while another is in flight only
\* if fewer calls than this were made before it.
MaxCalls == 4
\* Number of calls made while another call is in flight, where the calls are
\* otherwise made one at a time: no call is made after the last of them.
MaxOverlaps == 1

VARIABLES
  store,      \* browser.Storage.StorageArea: substrate key string -> lav
  nextNid,    \* the next id generateNid() returns (ids are fresh, never reused)
  nextEid,    \* the next id generateEid() returns
  clock,      \* unixtime.now()
  created,    \* history: created[n] = the arguments node n was created with
  last,       \* the call that returned last: its name, argument, outcome, events;
              \* or the call made since
  pending,    \* the calls in flight: made, not yet returned
  calls,      \* history: the number of calls made, counted up to MaxCalls, and
              \* of those made while another was in flight, up to MaxOverlaps
  iter        \* the node iterator: its snapshot of ids and its index, or None

vars == <<store, nextNid, nextEid, clock, created, last, pending, calls, iter>>

\* ------------------------------------------------------------ optional values
\* A JavaScript value that may be undefined/null: the empty set, or {x}.
None == {}
Some(x) == {x}
IsSome(o) == o # {}
The(o) == CHOOSE x \in o : TRUE

\* ------------------------------------------------------------ sequences
RECURSIVE Flatten(_)
Flatten(ss) == IF ss = <<>> THEN <<>> ELSE Head(ss) \o Flatten(Tail(ss))

Range(s) == {s[i] : i \in 1..Len(s)}

Contains(s, x) == \E i \in 1..Len(s) : s[i] = x

\* ------------------------------------------------------------ domains
OriginIds == {1, 2}
Origins == [id : OriginIds]
PipelineKeys == {1}
Pipelines == [pipeline_key : PipelineKeys]
AssociationTypes == {"web_transition", "search"}

\* ------------------------------------------------------------ yeks and lavs
ArrayKinds ==
  {"all-nids", "origin->nid", "nid->edge", "ext-pipe-id->nid", "origin->ext-assoc"}

Yek(kind, key) == [kind |-> kind, key |-> key]
Lav(kind, value, auxiliary) == [kind |-> kind, value |-> value, auxiliary |-> auxiliary]
YekLav(yek, lav) == [yek |-> yek, lav |-> lav]

AllNidsYek == Yek("all-nids", None)
NidToNodeYek(nid) == Yek("nid->node", nid)
OriginToNidYek(origin) == Yek("origin->nid", origin)
NidToEdgeYek(nid) == Yek("nid->edge", nid)
OriginToActivityYek(origin) == Yek("origin->activity", origin)
ExtPipelineYek(epid) == Yek("ext-pipe-id->progress", epid)
ExtPipelineToNidYek(epid) == Yek("ext-pipe-id->nid", epid)
OriginToExtAssociationYek(origin) == Yek("origin->ext-assoc", origin)
NidToNodeSimilaritySearchInfoYek(nid) == Yek("nid->sim-search-node", nid)
UserAccountInfoYek == Yek("account-info", None)

\* Array.isArray(lav.lav.value): the array-valued records are those of the
\* array kinds (set() stores a value only under a key of its own kind).
isOfArrayKind(lav) == lav.kind \in ArrayKinds

\* YekLavStore.stringify, were the pipeline index to share the prefix of the
\* pipeline progress record.
stringify_SharedPipelinePrefix(yek) ==
  CASE yek.kind = "all-nids" -> "all-nids"
    [] yek.kind = "nid->node" -> "nid->node:" \o ToString(yek.key)
    [] yek.kind = "origin->nid" -> "origin->nid:" \o ToString(yek.key.id)
    [] yek.kind = "nid->edge" -> "nid->edge:" \o ToString(yek.key)
    [] yek.kind = "origin->activity" -> "origin->activity:" \o ToString(yek.key.id)
    [] yek.kind = "ext-pipe-id->progress" -> "ext-pipe:" \o ToString(yek.key.pipeline_key)
    [] yek.kind = "ext-pipe-id->nid" -> "ext-pipe:" \o ToString(yek.key.pipeline_key)
    [] yek.kind = "origin->ext-assoc" -> "origin->ext-assoc:" \o ToString(yek.key.id)
    [] yek.kind = "nid->sim-search-node" -> "nid->sim-search-node:" \o ToString(yek.key)
    [] yek.kind = "account-info" -> "account-info"

\* YekLavStore.stringify
stringify(yek) ==
  CASE yek.kind = "all-nids" -> "all-nids"
    [] yek.kind = "nid->node" -> "nid->node:" \o ToString(yek.key)
    [] yek.kind = "origin->nid" -> "origin->nid:" \o ToString(yek.key.id)
    [] yek.kind = "nid->edge" -> "nid->edge:" \o ToString(yek.key)
    [] yek.kind = "origin->activity" -> "origin->activity:" \o ToString(yek.key.id)
    [] yek.kind = "ext-pipe-id->progress" -> "ext-pipe:" \o ToString(yek.key.pipeline_key)
    [] yek.kind = "ext-pipe-id->nid" -> "ext-pipe-id->nid:" \o ToString(yek.key.pipeline_key)
    [] yek.kind = "origin->ext-assoc" -> "origin->ext-assoc:" \o ToString(yek.key.id)
    [] yek.kind = "nid->sim-search-node" -> "nid->sim-search-node:" \o ToString(yek.key)
    [] yek.kind = "account-info" -> "account-info"

\* ------------------------------------------------------------ YekLavStore
\* YekLavStore.get, single-key form: the record, or undefined.
StoreGet(st, yek) ==
  IF stringify(yek) \in DOMAIN st THEN Some(st[stringify(yek)]) ELSE None

\* `(await store.get(yek))?.lav.value ?? []`
ValueOrEmpty(st, yek) ==
  IF IsSome(StoreGet(st, yek)) THEN The(StoreGet(st, yek)).value ELSE <<>>

\* YekLavStore.get, batch form, were it to stop at the first key that has no
\* record.
RECURSIVE StoreGetBatch_StopsAtMissing(_, _)
StoreGetBatch_StopsAtMissing(st, yeks) ==
  IF yeks = <<>> THEN <<>>
  ELSE IF IsSome(StoreGet(st, Head(yeks)))
       THEN <<YekLav(Head(yeks), The(StoreGet(st, Head(yeks))))>>
            \o StoreGetBatch_StopsAtMissing(st, SelectSeq(Tail(yeks),
                   LAMBDA y : stringify(y) # stringify(Head(yeks))))
       ELSE <<>>

\* YekLavStore.get, batch form: only the records that exist, in request order
\* (a key requested twice is reported once, at its first position).
RECURSIVE StoreGetBatch(_, _)
StoreGetBatch(st, yeks) ==
  IF yeks = <<>> THEN <<>>
  ELSE LET rest == StoreGetBatch(st, SelectSeq(Tail(yeks),
                       LAMBDA y : stringify(y) # stringify(Head(yeks))))
       IN IF IsSome(StoreGet(st, Head(yeks)))
          THEN <<YekLav(Head(yeks), The(StoreGet(st, Head(yeks))))>> \o rest
          ELSE rest

\* The checks YekLavStore.set makes before its single bulk write.
SetMismatch(items) == \E i \in 1..Len(items) : items[i].yek.kind # items[i].lav.kind
SetDuplicate(items) ==
  \E i, j \in 1..Len(items) : i < j /\ stringify(items[i].yek) = stringify(items[j].yek)
\* The checks of set, were it to compare kinds only.
SetRejects_KindsOnly(items) == SetMismatch(items)

SetRejects(items) == SetMismatch(items) \/ SetDuplicate(items)

\* The error YekLavStore.set throws for a batch it rejects.
SetError(items) ==
  IF SetMismatch(items) THEN Some("Attempted to set a key/value pair of mismatching kinds")
  ELSE IF SetDuplicate(items) THEN Some("Attempted to set more than 1 value")
  ELSE None

\* The substrate after store.set(records): one bulk write.
SubstrateSet(st, items) ==
  LET keys == {stringify(items[i].yek) : i \in 1..Len(items)}
      at(k) == CHOOSE i \in 1..Len(items) : stringify(items[i].yek) = k
  IN [k \in DOMAIN st \cup keys |-> IF k \in keys THEN items[at(k)].lav ELSE st[k]]

\* YekLavStore.set: the store after the call (unchanged when it throws).
StoreSet(st, items) == IF SetRejects(items) THEN st ELSE SubstrateSet(st, items)

\* YekLavStore.remove
StoreRemove(st, yeks) ==
  [k \in DOMAIN st \ {stringify(yeks[i]) : i \in 1..Len(yeks)} |-> st[k]]

\* YekLavStore.prepareAppend: [ok, yek, lav]; ok = FALSE when it throws.
prepareAppend(st, yek, appended_lav) ==
  LET lav == StoreGet(st, yek)
      value == IF IsSome(lav) THEN The(lav).value ELSE <<>>
  IN IF yek.kind # appended_lav.kind
       THEN [ok |-> FALSE, yek |-> yek, lav |-> appended_lav]
     ELSE IF IsSome(lav) /\ ~isOfArrayKind(The(lav))
       THEN [ok |-> FALSE, yek |-> yek, lav |-> appended_lav]
     ELSE [ok |-> TRUE, yek |-> yek,
           lav |-> Lav(yek.kind, value \o appended_lav.value, None)]

\* The entries lodash.remove leaves in an array of {nid} objects.
RemoveNids(value, criteria) ==
  SelectSeq(value, LAMBDA e : ~Contains(criteria, e.nid))

\* The entries lodash.remove leaves in an array of edges.
RemoveEdges(value, criteria) ==
  SelectSeq(value, LAMBDA e : ~(Contains(criteria, e.from_nid) \/ Contains(criteria, e.to_nid)))

\* YekLavStore.prepareRemoval: [ok, yek, lav]; ok = FALSE when it throws.
prepareRemoval(st, yek, criteria) ==
  LET lav == StoreGet(st, yek)
      value == IF IsSome(lav) THEN The(lav).value ELSE <<>>
  IN IF IsSome(lav) /\ ~isOfArrayKind(The(lav))
       THEN [ok |-> FALSE, yek |-> yek, lav |-> The(lav)]
     ELSE [ok |-> TRUE, yek |-> yek,
           lav |-> Lav(yek.kind,
                       CASE yek.kind \in {"all-nids", "origin->nid"} -> RemoveNids(value, criteria)
                         [] yek.kind = "nid->edge" -> RemoveEdges(value, criteria)
                         [] OTHER -> value,
                       None)]

\* The records a handler passes to set, from the results of its prepare calls.
Items(prepared) == [i \in 1..Len(prepared) |-> YekLav(prepared[i].yek, prepared[i].lav)]
AllOk(prepared) == \A i \in 1..Len(prepared) : prepared[i].ok

\* The error a handler ends with when one of its prepareAppend calls or its
\* set call throws.
AppendOrSetError(prepared) ==
  IF ~AllOk(prepared) THEN Some("prepareAppend only works/makes sense for arrays")
  ELSE SetError(Items(prepared))

\* ------------------------------------------------------------ node repository
\* NodeType.Text, the type createNode gives a node whose arguments name none.
NodeTypeText == "Text"
NodeTypes == {"Text", "Url"}

\* A TEdgeJson as createNode and createEdge build it.
Edge(eid, from_nid, to_nid, createdAt) ==
  [eid |-> eid, from_nid |-> from_nid, to_nid |-> to_nid,
   crtd |-> createdAt, upd |-> createdAt, is_sticky |-> FALSE]

\* `'autoIngestion' in args.created_via`
IsAutoIngestion(created_via) ==
  IsSome(created_via) /\ "autoIngestion" \in DOMAIN The(created_via)

\* createNode, were it to stamp updated_at with the clock instead of the
\* creation time.
NewNodeJson_UpdatedNow(args, nid, now) ==
  LET createdAt == IF IsSome(args.created_at) THEN The(args.created_at) ELSE now
  IN [nid |-> nid,
      ntype |-> IF IsSome(args.ntype) THEN The(args.ntype) ELSE NodeTypeText,
      text |-> args.text,
      extattrs |-> args.extattrs,
      index_text |-> args.index_text,
      created_at |-> createdAt,
      updated_at |-> now]

\* createNode: the TNodeJson it builds.
NewNodeJson(args, nid, now) ==
  LET createdAt == IF IsSome(args.created_at) THEN The(args.created_at) ELSE now
  IN [nid |-> nid,
      ntype |-> IF IsSome(args.ntype) THEN The(args.ntype) ELSE NodeTypeText,
      text |-> args.text,
      extattrs |-> args.extattrs,
      index_text |-> args.index_text,
      created_at |-> createdAt,
      updated_at |-> createdAt]

\* createNode: the results of its prepare calls and its literal records, in
\* the order it pushes them to `records`.
CreateNodeRecords(st, args, nid, eid, now) ==
  LET node == NewNodeJson(args, nid, now)
      from_nid == args.from_nid
      to_nid == args.to_nid
      from_edges == [i \in 1..Len(from_nid) |->
                       Edge(eid + i - 1, from_nid[i], nid, node.created_at)]
      to_edges == [i \in 1..Len(to_nid) |->
                     Edge(eid + Len(from_nid) + i - 1, nid, to_nid[i], node.created_at)]
      listing == prepareAppend(st, AllNidsYek,
                   Lav("all-nids", <<[nid |-> nid, created_at |-> node.created_at]>>, None))
      canonical == [ok |-> TRUE, yek |-> NidToNodeYek(nid),
                    lav |-> Lav("nid->node", node,
                                [origin |-> args.origin, created_via |-> args.created_via])]
      byOrigin == IF IsSome(args.origin)
                  THEN <<prepareAppend(st, OriginToNidYek(The(args.origin)),
                                       Lav("origin->nid", <<[nid |-> nid]>>, None))>>
                  ELSE <<>>
      byPipeline == IF IsAutoIngestion(args.created_via)
                    THEN <<prepareAppend(
                             st, ExtPipelineToNidYek(The(args.created_via).autoIngestion),
                             Lav("ext-pipe-id->nid", <<[nid |-> nid]>>, None))>>
                    ELSE <<>>
      own == [ok |-> TRUE, yek |-> NidToEdgeYek(nid),
              lav |-> Lav("nid->edge", from_edges \o to_edges, None)]
      mirrorsFrom == [i \in 1..Len(from_edges) |->
                        prepareAppend(st, NidToEdgeYek(from_edges[i].from_nid),
                                      Lav("nid->edge", <<from_edges[i]>>, None))]
      mirrorsTo == [i \in 1..Len(to_edges) |->
                      prepareAppend(st, NidToEdgeYek(to_edges[i].to_nid),
                                    Lav("nid->edge", <<to_edges[i]>>, None))]
      edges == IF Len(from_nid) > 0 \/ Len(to_nid) > 0
               THEN <<own>> \o mirrorsFrom \o mirrorsTo
               ELSE <<>>
  IN <<listing, canonical>> \o byOrigin \o byPipeline \o edges

\* NodeUtil.fromJson: the TNode of a stored TNodeJson.  The content fields are
\* carried over; the two unix timestamps become moment objects.
Moment(t) == [unix |-> t]
NodeFromJson(json) ==
  [nid |-> json.nid, ntype |-> json.ntype, text |-> json.text,
   extattrs |-> json.extattrs, index_text |-> json.index_text,
   created_at |-> Moment(json.created_at), updated_at |-> Moment(json.updated_at)]

\* getNode: [ok, node]; ok = FALSE is the not-found error.
getNode(st, nid) ==
  LET lav == StoreGet(st, NidToNodeYek(nid))
  IN IF lav = None THEN [ok |-> FALSE, node |-> None]
     ELSE [ok |-> TRUE, node |-> Some(NodeFromJson(The(lav).value))]

\* getNodesByOrigin, were its batch read to stop at the first indexed id that
\* has no canonical record.
getNodesByOrigin_StopsAtMissing(st, origin) ==
  LET lav == StoreGet(st, OriginToNidYek(origin))
  IN IF lav = None THEN <<>>
     ELSE LET value == The(lav).value
              nidYeks == [i \in 1..Len(value) |-> NidToNodeYek(value[i].nid)]
              nidLavs == StoreGetBatch_StopsAtMissing(st, nidYeks)
          IN [i \in 1..Len(nidLavs) |-> NodeFromJson(nidLavs[i].lav.value)]

\* getNodesByOrigin
getNodesByOrigin(st, origin) ==
  LET lav == StoreGet(st, OriginToNidYek(origin))
  IN IF lav = None THEN <<>>
     ELSE LET value == The(lav).value
              nidYeks == [i \in 1..Len(value) |-> NidToNodeYek(value[i].nid)]
              nidLavs == StoreGetBatch(st, nidYeks)
          IN [i \in 1..Len(nidLavs) |-> NodeFromJson(nidLavs[i].lav.value)]

\* getNodeBatch
getNodeBatch(st, nids) ==
  LET lavs == StoreGetBatch(st, [i \in 1..Len(nids) |-> NidToNodeYek(nids[i])])
  IN [i \in 1..Len(lavs) |-> NodeFromJson(lavs[i].lav.value)]

\* tags.sort((a, b) => b.created_at - a.created_at): a stable sort, latest first.
RECURSIVE InsertTag(_, _)
InsertTag(sorted, tag) ==
  IF sorted = <<>> THEN <<tag>>
  ELSE IF Head(sorted).created_at - tag.created_at < 0
       THEN <<tag>> \o sorted
       ELSE <<Head(sorted)>> \o InsertTag(Tail(sorted), tag)

RECURSIVE SortTags(_)
SortTags(tags) ==
  IF tags = <<>> THEN <<>>
  ELSE InsertTag(SortTags(SubSeq(tags, 1, Len(tags) - 1)), tags[Len(tags)])

\* getAllNids, were it to return the listing in stored order.
getAllNids_Unsorted(st) ==
  LET lav == StoreGet(st, AllNidsYek)
  IN IF lav = None THEN <<>>
     ELSE [i \in 1..Len(The(lav).value) |-> The(lav).value[i].nid]

\* getAllNids
getAllNids(st) ==
  LET lav == StoreGet(st, AllNidsYek)
  IN IF lav = None THEN <<>>
     ELSE LET tags == SortTags(The(lav).value)
          IN [i \in 1..Len(tags) |-> tags[i].nid]

\* getNodeSimilaritySearchInfo: the record's value, or null.
getNodeSimilaritySearchInfo(st, nid) ==
  LET lav == StoreGet(st, NidToNodeSimilaritySearchInfoYek(nid))
  IN IF lav = None THEN None ELSE Some(The(lav).value)

\* prepareNodeRemoval reads in two ways: with store.get (`st`: the records its
\* get calls were served) and inside store.prepareRemoval (`given`: the records
\* its prepareRemoval calls were served).  For a call that nothing interleaves
\* both are the store the call met.
\*
\* prepareNodeRemoval: the bi-directional copies of the edges of one removed
\* node, one prepareRemoval per edge of its adjacency bucket.
LinkedRemovals(st, given, removedNid) ==
  LET edges == ValueOrEmpty(st, NidToEdgeYek(removedNid))
      linkedNids == [i \in 1..Len(edges) |->
                       IF edges[i].from_nid = removedNid
                       THEN edges[i].to_nid ELSE edges[i].from_nid]
  IN [i \in 1..Len(linkedNids) |->
        prepareRemoval(given, NidToEdgeYek(linkedNids[i]), <<removedNid>>)]

\* prepareNodeRemoval: the prepareRemoval against the origin index of one
\* removed node, if its canonical record names an origin.
OriginRemovals(st, given, nid) ==
  LET lav == StoreGet(st, NidToNodeYek(nid))
      origin == IF IsSome(lav) THEN The(lav).auxiliary.origin ELSE None
  IN IF IsSome(origin)
     THEN <<prepareRemoval(given, OriginToNidYek(The(origin)), <<nid>>)>>
     ELSE <<>>

\* prepareNodeRemoval: {toRemove, toSet}; toSet is given as the results of the
\* prepare calls, in the order they are pushed.
prepareNodeRemoval(st, given, nids) ==
  [toRemove |->
      [i \in 1..Len(nids) |-> NidToNodeYek(nids[i])]
      \o [i \in 1..Len(nids) |-> NidToEdgeYek(nids[i])]
      \o [i \in 1..Len(nids) |-> NidToNodeSimilaritySearchInfoYek(nids[i])],
   toSet |->
      Flatten([i \in 1..Len(nids) |-> LinkedRemovals(st, given, nids[i])])
      \o <<prepareRemoval(given, AllNidsYek, nids)>>
      \o Flatten([i \in 1..Len(nids) |-> OriginRemovals(st, given, nids[i])])]

\* deleteNode and bulkDeleteNodes: `store.remove(toRemove)` followed by
\* `store.set(toSet)` succeeds.  A prepare call that throws ends the handler
\* before the remove; a set that throws leaves the remove applied.
RemoveThenSetOk(prepared) == AllOk(prepared) /\ ~SetRejects(Items(prepared))

\* bulkDeleteNodes: the ids recorded under the pipeline index.
PipelineNids(st, epid) ==
  LET value == ValueOrEmpty(st, ExtPipelineToNidYek(epid))
  IN [i \in 1..Len(value) |-> value[i].nid]

\* updateNode: the canonical record it writes.
UpdatedNodeLav(lav, args, now) ==
  [lav EXCEPT
     !.value.text = IF IsSome(args.text) THEN The(args.text) ELSE @,
     !.value.index_text = IF IsSome(args.index_text) THEN args.index_text ELSE @,
     !.value.updated_at = IF ~args.preserve_update_time THEN now ELSE @]

\* getUserIngestionProgress, were it to report -1 ("unknown") for a pipeline
\* that has no progress record.
getUserIngestionProgress_NoDefault(st, epid) ==
  LET lav == StoreGet(st, ExtPipelineYek(epid))
  IN IF lav = None THEN [epid |-> epid, ingested_until |-> -1]
     ELSE [epid |-> epid, ingested_until |-> The(lav).value.ingested_until]

\* getUserIngestionProgress
getUserIngestionProgress(st, epid) ==
  LET lav == StoreGet(st, ExtPipelineYek(epid))
  IN IF lav = None THEN [epid |-> epid, ingested_until |-> 0]
     ELSE [epid |-> epid, ingested_until |-> The(lav).value.ingested_until]

\* getNodeAllEdges
getNodeAllEdges(st, nid) ==
  LET value == ValueOrEmpty(st, NidToEdgeYek(nid))
  IN [from_edges |-> SelectSeq(value, LAMBDA e : e.to_nid = nid),
      to_edges |-> SelectSeq(value, LAMBDA e : e.to_nid # nid)]

\* ------------------------------------------------------------ activity tracker
\* addExternalUserActivity: the stored activity of an origin, or the empty
\* activity it starts from.
ActivityValue(st, origin) ==
  LET oldLav == StoreGet(st, OriginToActivityYek(origin))
  IN IF IsSome(oldLav) THEN The(oldLav).value
     ELSE [visits |-> <<>>, attentions |-> <<>>, total_seconds_of_attention |-> 0]

\* addExternalUserActivity: which branch a report takes.
ActivityBranch(activity) ==
  IF IsSome(activity.visit) THEN "visit"
  ELSE IF IsSome(activity.attention) THEN "attention"
  ELSE "invalid"

\* addExternalUserActivity, were it to add the seconds without storing the event.
AddedActivity_TotalOnly(value, activity) ==
  CASE ActivityBranch(activity) = "visit" ->
         LET visit == The(activity.visit)
         IN [value EXCEPT !.visits =
               @ \o [i \in 1..Len(visit.visits) |->
                        [timestamp |-> visit.visits[i].timestamp,
                         reported_by |-> visit.reported_by]]]
    [] ActivityBranch(activity) = "attention" ->
         [value EXCEPT !.total_seconds_of_attention = @ + The(activity.attention).seconds]
    [] OTHER -> value

\* addExternalUserActivity: the activity value it stores for a report.
AddedActivity(value, activity) ==
  CASE ActivityBranch(activity) = "visit" ->
         LET visit == The(activity.visit)
         IN [value EXCEPT !.visits =
               @ \o [i \in 1..Len(visit.visits) |->
                        [timestamp |-> visit.visits[i].timestamp,
                         reported_by |-> visit.reported_by]]]
    [] ActivityBranch(activity) = "attention" ->
         [value EXCEPT !.attentions = Append(@, The(activity.attention)),
                       !.total_seconds_of_attention = @ + The(activity.attention).seconds]
    [] OTHER -> value

\* getExternalUserActivity
getExternalUserActivity(st, origin) ==
  LET lav == StoreGet(st, OriginToActivityYek(origin))
  IN IF lav = None THEN [visits |-> <<>>, seconds_of_attention |-> 0]
     ELSE [visits |-> The(lav).value.visits,
           seconds_of_attention |-> The(lav).value.total_seconds_of_attention]

\* ------------------------------------------------------------ association manager
\* The association bucket of an origin (`orEmpty`: a missing bucket is empty).
AssociationBucket(st, origin) == ValueOrEmpty(st, OriginToExtAssociationYek(origin))

\* The ids indexed under an origin.
OriginIndex(st, origin) == ValueOrEmpty(st, OriginToNidYek(origin))

\* recordAssociation: the bucket already names the other origin.
References(value, origin) == \E i \in 1..Len(value) : value[i].other.id = origin.id

AssociationValue(direction, other, association) ==
  [direction |-> direction, other |-> other, association |-> association]

\* recordAssociation, were it to tag the mirror entry 'to' as well.
AssociationRecords_SameDirection(st, from, to, association) ==
  <<YekLav(OriginToExtAssociationYek(from),
           Lav("origin->ext-assoc",
               Append(AssociationBucket(st, from), AssociationValue("to", to, association)),
               None)),
    YekLav(OriginToExtAssociationYek(to),
           Lav("origin->ext-assoc",
               Append(AssociationBucket(st, to), AssociationValue("to", from, association)),
               None))>>

\* recordAssociation: the two records it passes to set.
AssociationRecords(st, from, to, association) ==
  <<YekLav(OriginToExtAssociationYek(from),
           Lav("origin->ext-assoc",
               Append(AssociationBucket(st, from), AssociationValue("to", to, association)),
               None)),
    YekLav(OriginToExtAssociationYek(to),
           Lav("origin->ext-assoc",
               Append(AssociationBucket(st, to), AssociationValue("from", from, association)),
               None))>>

\* recordAssociation, were it to lack the early return for a known pair.
AssociationOutcome_NoEarlyReturn(st, from, to, association) ==
  IF References(AssociationBucket(st, to), from) THEN "inconsistent"
  ELSE IF SetRejects(AssociationRecords(st, from, to, association)) THEN "rejected"
  ELSE "recorded"

\* recordAssociation, were it to write the pair without looking at to's bucket.
AssociationOutcome_NoConsistencyCheck(st, from, to, association) ==
  IF References(AssociationBucket(st, from), to) THEN "duplicate"
  ELSE IF SetRejects(AssociationRecords(st, from, to, association)) THEN "rejected"
  ELSE "recorded"

\* recordAssociation: how the call ends.
\*   "duplicate"     from's bucket names to: success, nothing written
\*   "inconsistent"  to's bucket names from, from's does not name to: error
\*   "rejected"      set threw
\*   "recorded"      both buckets written
AssociationOutcome(st, from, to, association) ==
  IF References(AssociationBucket(st, from), to) THEN "duplicate"
  ELSE IF References(AssociationBucket(st, to), from) THEN "inconsistent"
  ELSE IF SetRejects(AssociationRecords(st, from, to, association)) THEN "rejected"
  ELSE "recorded"

\* getAssociations: one end of a reported association.
AssociationEnd(st, origin_hash) ==
  [origin_hash |-> origin_hash,
   nids |-> LET value == OriginIndex(st, [id |-> origin_hash])
            IN [i \in 1..Len(value) |-> value[i].nid]]

\* getAssociations
getAssociations(st, origin) ==
  LET value == AssociationBucket(st, origin)
      fromValues == SelectSeq(value, LAMBDA v : v.direction = "from")
      toValues == SelectSeq(value, LAMBDA v : v.direction = "to")
  IN [from |-> [i \in 1..Len(fromValues) |->
                  [from |-> AssociationEnd(st, fromValues[i].other.id),
                   to |-> AssociationEnd(st, origin.id),
                   association |-> fromValues[i].association]],
      to |-> [i \in 1..Len(toValues) |->
                [from |-> AssociationEnd(st, origin.id),
                 to |-> AssociationEnd(st, toValues[i].other.id),
                 association |-> toValues[i].association]]]

\* ------------------------------------------------------------ the calls
\* What a call leaves in `last`: its name, argument, whether it returned
\* (ok) or threw, what it returned, the notifications it emitted, and the
\* write calls it issued to the substrate, in order.
Call(op, arg, ok, ret, events, writes) ==
  [op |-> op, arg |-> arg, ok |-> ok, ret |-> ret, events |-> events, writes |-> writes]

\* The substrate calls and notifications of one handler call, in the order the
\* handler issues them: each names the call and the substrate keys it is given
\* (for a notification, the event type).
Step(call, keys) == [call |-> call, keys |-> keys]
GetStep(yek) == Step("get", <<stringify(yek)>>)
RemoveStep(yeks) == Step("remove", [i \in 1..Len(yeks) |-> stringify(yeks[i])])
SetStep(items) == Step("set", [i \in 1..Len(items) |-> stringify(items[i].yek)])
EventStep(type) == Step("registerEvent", <<type>>)

\* A read a handler awaits: `prepare` tells a read made inside prepareAppend or
\* prepareRemoval, which throws on a stored record that is not an array.
Read(yek, prepare) == [yek |-> yek, prepare |-> prepare]

ReadThrows(st, read) ==
  read.prepare /\ IsSome(StoreGet(st, read.yek)) /\ ~isOfArrayKind(The(StoreGet(st, read.yek)))

\* The get calls of a handler that awaits the reads one after another: they
\* end with the first one whose prepare call throws.
RECURSIVE ReadSteps(_, _)
ReadSteps(st, reads) ==
  IF reads = <<>> THEN <<>>
  ELSE IF ReadThrows(st, Head(reads)) THEN <<GetStep(Head(reads).yek)>>
  ELSE <<GetStep(Head(reads).yek)>> \o ReadSteps(st, Tail(reads))

\* A call record that also keeps the steps of the call.
CallWithSteps(op, arg, ok, ret, events, writes, steps) ==
  [op |-> op, arg |-> arg, ok |-> ok, ret |-> ret, events |-> events, writes |-> writes,
   steps |-> steps]

\* A call record that also keeps the arguments object of the call.
WithArgs(call, args) == [args |-> args] @@ call

\* createNode: the keys it reads, one prepareAppend after another.
CreateNodeReads(args) ==
  <<Read(AllNidsYek, TRUE)>>
  \o (IF IsSome(args.origin) THEN <<Read(OriginToNidYek(The(args.origin)), TRUE)>> ELSE <<>>)
  \o (IF IsAutoIngestion(args.created_via)
      THEN <<Read(ExtPipelineToNidYek(The(args.created_via).autoIngestion), TRUE)>>
      ELSE <<>>)
  \o [i \in 1..Len(args.from_nid) |-> Read(NidToEdgeYek(args.from_nid[i]), TRUE)]
  \o [i \in 1..Len(args.to_nid) |-> Read(NidToEdgeYek(args.to_nid[i]), TRUE)]

\* prepareNodeRemoval of one node: the keys it reads.
NodeRemovalReads(st, nid) ==
  LET edges == ValueOrEmpty(st, NidToEdgeYek(nid))
      lav == StoreGet(st, NidToNodeYek(nid))
      origin == IF IsSome(lav) THEN The(lav).auxiliary.origin ELSE None
  IN <<Read(NidToEdgeYek(nid), FALSE)>>
     \o [i \in 1..Len(edges) |->
          Read(NidToEdgeYek(IF edges[i].from_nid = nid
                            THEN edges[i].to_nid ELSE edges[i].from_nid), TRUE)]
     \o <<Read(AllNidsYek, TRUE), Read(NidToNodeYek(nid), FALSE)>>
     \o (IF IsSome(origin) THEN <<Read(OriginToNidYek(The(origin)), TRUE)>> ELSE <<>>)

\* The substrate writes of a handler that ends with one set call.
SetWrites(ok) == IF ok THEN <<"set">> ELSE <<>>

\* The substrate writes of deleteNode and bulkDeleteNodes.
RemoveThenSetWrites(prepared) ==
  IF ~AllOk(prepared) THEN <<>>
  ELSE IF SetRejects(Items(prepared)) THEN <<"remove">>
  ELSE <<"remove", "set">>

NodeEvent(type, nid, patch) == [type |-> type, nid |-> nid, patch |-> patch]

\* The node ids a caller can name: every id handed out so far, whether its
\* node still exists or not.
KnownNids == 1..(nextNid - 1)

\* ------------------------------------------------------------ calls in flight
\* A handler is an async function: it runs up to its first await, and each
\* time the substrate has served the call it awaits it runs on to the next.
\* The engine does no locking, so between two substrate calls of one handler
\* the substrate may serve the calls of others.  A call in flight is kept as
\*   op, arg  the endpoint and what the handler holds in its local variables;
\*   pc       the number of its substrate calls served so far;
\*   seen     the records its store.get calls were served;
\*   given    the records its prepareAppend / prepareRemoval calls were served;
\*   answered the gets of its Promise.all that have been served.

\* The substrate calls a handler awaits.  The keys of one batch get are one
\* substrate call.  `part` is <<>> for a call the handler awaits on its own.
GetOp(yeks, prepare) == [call |-> "get", yeks |-> yeks, prepare |-> prepare, part |-> <<>>]
RemoveOp(yeks) == [call |-> "remove", yeks |-> yeks]
SetOp(items) == [call |-> "set", items |-> items]

\* A get made inside Promise.all: the promises handed to Promise.all have each
\* made their first get before Promise.all is awaited, so their gets are in
\* flight together and the substrate serves them one by one, in any order.
\* `part` is <<k, n>>: the n-th get of the k-th promise.
PartOp(yek, prepare, part) ==
  [call |-> "get", yeks |-> <<yek>>, prepare |-> prepare, part |-> part]

\* The gets of one Promise.all as a handler's substrate calls: those served,
\* and after them those in flight.
Together(gets, answered) ==
  SelectSeq(gets, LAMBDA op : op.part \in answered)
  \o SelectSeq(gets, LAMBDA op : op.part \notin answered)

InFlight(op, arg) ==
  [op |-> op, arg |-> arg, pc |-> 0, seen |-> <<>>, given |-> <<>>, answered |-> {}]

\* The records a call holds once the substrate has served it a get of `yeks`.
Served(view, st, yeks) ==
  LET keys == {stringify(yeks[i]) : i \in 1..Len(yeks)}
  IN [k \in (DOMAIN view \ keys) \cup (keys \cap DOMAIN st) |->
        IF k \in keys THEN st[k] ELSE view[k]]

\* The calls in flight once call i has returned or thrown.
Without(inFlight, i) ==
  [j \in 1..(Len(inFlight) - 1) |-> IF j < i THEN inFlight[j] ELSE inFlight[j + 1]]

\* The gets of a handler that awaits its reads one after another: they end
\* with the first one whose prepare call throws.
RECURSIVE ReadOps(_, _)
ReadOps(given, reads) ==
  IF reads = <<>> THEN <<>>
  ELSE IF ReadThrows(given, Head(reads)) THEN <<GetOp(<<Head(reads).yek>>, TRUE)>>
  ELSE <<GetOp(<<Head(reads).yek>>, Head(reads).prepare)>> \o ReadOps(given, Tail(reads))

\* The error getNode and updateNode throw for an id that has no record.
NotFound == Some("wasn't found")

\* What recordAssociation returns or throws: nothing of interest on success,
\* the error on failure.
AssociationResult(outcome) ==
  CASE outcome = "inconsistent" -> Some("Data is unexpectedly inconsistent")
    [] outcome = "rejected" -> Some("Attempted to set more than 1 value")
    [] OTHER -> None

\* Each handler below is given as
\*   ops   the substrate calls it awaits, in order, as far as the records it
\*         has been served decide them (store.set throws before it reaches the
\*         substrate, so a rejected set is not among them);
\*   last  what the call leaves in `last` once all of them have been served.

\* createNode, were it to register the 'created' event before its set call.
createNode_NotifiesFirst(call) ==
  LET args == call.arg.args
      nid == call.arg.nid
      prepared == CreateNodeRecords(call.given, args, nid, call.arg.eid, call.arg.now)
      ok == AllOk(prepared) /\ ~SetRejects(Items(prepared))
      node == NewNodeJson(args, nid, call.arg.now)
      event == NodeEvent("created", nid,
                         [text |-> node.text, index_text |-> node.index_text,
                          extattrs |-> node.extattrs, ntype |-> node.ntype])
  IN [ops |-> ReadOps(call.given, CreateNodeReads(args))
              \o (IF ok THEN <<SetOp(Items(prepared))>> ELSE <<>>),
      last |-> WithArgs(CallWithSteps("node.create", None, ok,
                  IF ok THEN Some(nid) ELSE AppendOrSetError(prepared),
                  IF AllOk(prepared) THEN <<event>> ELSE <<>>,
                  SetWrites(ok),
                  ReadSteps(call.given, CreateNodeReads(args))
                  \o (IF AllOk(prepared)
                      THEN <<EventStep("created"), SetStep(Items(prepared))>>
                      ELSE <<>>)), args)]

\* createNode.  arg: the arguments, the node id and the creation time taken
\* before the first await, and the first of the edge ids drawn once the
\* listing and the indexes have been read.
createNode(call) ==
  LET args == call.arg.args
      nid == call.arg.nid
      prepared == CreateNodeRecords(call.given, args, nid, call.arg.eid, call.arg.now)
      ok == AllOk(prepared) /\ ~SetRejects(Items(prepared))
      node == NewNodeJson(args, nid, call.arg.now)
      event == NodeEvent("created", nid,
                         [text |-> node.text, index_text |-> node.index_text,
                          extattrs |-> node.extattrs, ntype |-> node.ntype])
  IN [ops |-> ReadOps(call.given, CreateNodeReads(args))
              \o (IF ok THEN <<SetOp(Items(prepared))>> ELSE <<>>),
      last |-> WithArgs(CallWithSteps("node.create", None, ok,
                  IF ok THEN Some(nid) ELSE AppendOrSetError(prepared),
                  IF ok THEN <<event>> ELSE <<>>,
                  SetWrites(ok),
                  ReadSteps(call.given, CreateNodeReads(args))
                  \o (IF AllOk(prepared) THEN <<SetStep(Items(prepared))>> ELSE <<>>)
                  \o (IF ok THEN <<EventStep("created")>> ELSE <<>>)), args)]

\* createNode: the number of prepareAppend calls it awaits before it draws
\* the ids of its edges.
IndexReads(args) ==
  1 + (IF IsSome(args.origin) THEN 1 ELSE 0)
    + (IF IsAutoIngestion(args.created_via) THEN 1 ELSE 0)

\* updateNode, were it to register the 'updated' event before looking the
\* node up.
updateNode_NotifiesFirst(call) ==
  LET args == call.arg.args
      yek == NidToNodeYek(args.nid)
      lav == StoreGet(call.seen, yek)
      ok == IsSome(lav)
  IN [ops |-> <<GetOp(<<yek>>, FALSE)>>
              \o (IF ok
                  THEN <<SetOp(<<YekLav(yek, UpdatedNodeLav(The(lav), args, call.arg.now))>>)>>
                  ELSE <<>>),
      last |-> WithArgs(Call("node.update", args.nid, ok, IF ok THEN None ELSE NotFound,
                  <<NodeEvent("updated", args.nid,
                              [text |-> args.text, index_text |-> args.index_text])>>,
                  SetWrites(ok)), args)]

\* updateNode, were it to stamp updated_at whatever preserve_update_time says.
updateNode_AlwaysBumps(call) ==
  LET args == call.arg.args
      yek == NidToNodeYek(args.nid)
      lav == StoreGet(call.seen, yek)
      ok == IsSome(lav)
  IN [ops |-> <<GetOp(<<yek>>, FALSE)>>
              \o (IF ok
                  THEN <<SetOp(<<YekLav(yek,
                           UpdatedNodeLav(The(lav), [args EXCEPT !.preserve_update_time = FALSE],
                                          call.arg.now))>>)>>
                  ELSE <<>>),
      last |-> WithArgs(Call("node.update", args.nid, ok, IF ok THEN None ELSE NotFound,
                  IF ok THEN <<NodeEvent("updated", args.nid,
                                 [text |-> args.text, index_text |-> args.index_text])>>
                  ELSE <<>>,
                  SetWrites(ok)), args)]

\* updateNode.  arg: the arguments and the time read once the record has been
\* served.
updateNode(call) ==
  LET args == call.arg.args
      yek == NidToNodeYek(args.nid)
      lav == StoreGet(call.seen, yek)
      ok == IsSome(lav)
  IN [ops |-> <<GetOp(<<yek>>, FALSE)>>
              \o (IF ok
                  THEN <<SetOp(<<YekLav(yek, UpdatedNodeLav(The(lav), args, call.arg.now))>>)>>
                  ELSE <<>>),
      last |-> WithArgs(Call("node.update", args.nid, ok, IF ok THEN None ELSE NotFound,
                  IF ok THEN <<NodeEvent("updated", args.nid,
                                 [text |-> args.text, index_text |-> args.index_text])>>
                  ELSE <<>>,
                  SetWrites(ok)), args)]

\* prepareNodeRemoval: the reads of its first two blocks, node by node the
\* adjacency bucket and then the bucket at the other end of each of its edges,
\* and the global listing.
RemovalReads(st, nids) ==
  Flatten([i \in 1..Len(nids) |->
    LET edges == ValueOrEmpty(st, NidToEdgeYek(nids[i]))
    IN <<Read(NidToEdgeYek(nids[i]), FALSE)>>
       \o [j \in 1..Len(edges) |->
             Read(NidToEdgeYek(IF edges[j].from_nid = nids[i]
                               THEN edges[j].to_nid ELSE edges[j].from_nid), TRUE)]])
  \o <<Read(AllNidsYek, TRUE)>>

\* prepareNodeRemoval: the origin indexes it reads, one for each node whose
\* canonical record names an origin.
OriginReads(st, nids) ==
  Flatten([i \in 1..Len(nids) |->
    LET lav == StoreGet(st, NidToNodeYek(nids[i]))
        origin == IF IsSome(lav) THEN The(lav).auxiliary.origin ELSE None
    IN IF IsSome(origin) THEN <<Read(OriginToNidYek(The(origin)), TRUE)>> ELSE <<>>])

\* prepareNodeRemoval, `Promise.all(nids.map(async (nid) => ...))`: the gets
\* of its promises, one async function for each node.  Each awaits the get
\* of the canonical record and then, if the record names an origin, makes
\* the get of prepareRemoval against the origin index; the gets of the
\* canonical records are made before any of them is served.  Two nodes
\* under one origin have the index read twice; store.set then rejects the key
\* given twice whatever the two reads were served, so the one record `given`
\* keeps of the index stands for both.
OriginGets(st, nids, answered) ==
  [i \in 1..Len(nids) |-> PartOp(NidToNodeYek(nids[i]), FALSE, <<i, 1>>)]
  \o Flatten([i \in 1..Len(nids) |->
       IF <<i, 1>> \in answered
       THEN LET reads == OriginReads(st, <<nids[i]>>)
            IN [j \in 1..Len(reads) |-> PartOp(reads[j].yek, TRUE, <<i, 2>>)]
       ELSE <<>>])

\* prepareNodeRemoval: the substrate calls it awaits.  The reads of its first
\* two blocks are awaited one after another; those of the Promise.all are
\* served in any order, and a prepareRemoval that throws rejects it.
prepareNodeRemovalOps(st, given, nids, answered) ==
  LET first == RemovalReads(st, nids)
      gets == OriginGets(st, nids, answered)
  IN IF \E i \in 1..Len(first) : ReadThrows(given, first[i])
     THEN ReadOps(given, first)
     ELSE ReadOps(given, first)
          \o (IF \E i \in 1..Len(gets) :
                    /\ gets[i].part \in answered
                    /\ ReadThrows(given, Read(gets[i].yeks[1], gets[i].prepare))
              THEN SelectSeq(gets, LAMBDA op : op.part \in answered)
              ELSE Together(gets, answered))

\* deleteNode and bulkDeleteNodes: the writes that follow prepareNodeRemoval.
RemoveThenSetOps(toRemove, prepared) ==
  IF ~AllOk(prepared) THEN <<>>
  ELSE IF SetRejects(Items(prepared)) THEN <<RemoveOp(toRemove)>>
  ELSE <<RemoveOp(toRemove), SetOp(Items(prepared))>>

\* deleteNode, were it to apply the proposed records before the removals.
deleteNode_SetsThenRemoves(call) ==
  LET nid == call.arg
      plan == prepareNodeRemoval(call.seen, call.given, <<nid>>)
      ok == RemoveThenSetOk(plan.toSet)
  IN [ops |-> prepareNodeRemovalOps(call.seen, call.given, <<nid>>, call.answered)
              \o (IF ok THEN <<SetOp(Items(plan.toSet)), RemoveOp(plan.toRemove)>> ELSE <<>>),
      last |-> CallWithSteps("node.delete", nid, ok, None,
                  <<NodeEvent("will-delete", nid, None)>>,
                  IF ok THEN <<"set", "remove">> ELSE <<>>,
                  <<EventStep("will-delete")>>
                  \o ReadSteps(call.given, NodeRemovalReads(call.seen, nid))
                  \o (IF ~AllOk(plan.toSet) THEN <<>>
                      ELSE IF ok THEN <<SetStep(Items(plan.toSet)), RemoveStep(plan.toRemove)>>
                      ELSE <<SetStep(Items(plan.toSet))>>))]

\* deleteNode.  arg: the node id.
deleteNode(call) ==
  LET nid == call.arg
      plan == prepareNodeRemoval(call.seen, call.given, <<nid>>)
  IN [ops |-> prepareNodeRemovalOps(call.seen, call.given, <<nid>>, call.answered)
              \o RemoveThenSetOps(plan.toRemove, plan.toSet),
      last |-> CallWithSteps("node.delete", nid, RemoveThenSetOk(plan.toSet), None,
                  <<NodeEvent("will-delete", nid, None)>>,
                  RemoveThenSetWrites(plan.toSet),
                  <<EventStep("will-delete")>>
                  \o ReadSteps(call.given, NodeRemovalReads(call.seen, nid))
                  \o (IF AllOk(plan.toSet)
                      THEN <<RemoveStep(plan.toRemove), SetStep(Items(plan.toSet))>>
                      ELSE <<>>))]

\* bulkDeleteNodes, from `const epid = args.createdVia.autoIngestion` on.
\* arg: the pipeline id.
bulkDeleteNodes(call) ==
  LET epid == call.arg
      nids == PipelineNids(call.seen, epid)
      plan == prepareNodeRemoval(call.seen, call.given, nids)
      ok == RemoveThenSetOk(plan.toSet)
  IN [ops |-> <<GetOp(<<ExtPipelineToNidYek(epid)>>, FALSE)>>
              \o prepareNodeRemovalOps(call.seen, call.given, nids, call.answered)
              \o RemoveThenSetOps(
                   plan.toRemove \o <<ExtPipelineYek(epid), ExtPipelineToNidYek(epid)>>,
                   plan.toSet),
      last |-> Call("node.bulkDelete", epid, ok,
                    IF ok THEN Some(Len(nids)) ELSE None, <<>>,
                    RemoveThenSetWrites(plan.toSet))]

\* createEdge, were it to build one record, not two, for an edge from a node
\* to itself.
createEdge_MergesSelfLoop(call) ==
  LET from == call.arg.from
      to == call.arg.to
      edge == Edge(call.arg.eid, from, to, call.arg.now)
      yeks == IF from = to THEN <<NidToEdgeYek(from)>> ELSE <<NidToEdgeYek(from), NidToEdgeYek(to)>>
      prepared == [i \in 1..Len(yeks) |->
                     prepareAppend(call.given, yeks[i], Lav("nid->edge", <<edge>>, None))]
      ok == AllOk(prepared) /\ ~SetRejects(Items(prepared))
  IN [ops |-> ReadOps(call.given, [i \in 1..Len(yeks) |-> Read(yeks[i], TRUE)])
              \o (IF ok THEN <<SetOp(Items(prepared))>> ELSE <<>>),
      last |-> Call("edge.create", [from |-> from, to |-> to], ok,
                    IF ok THEN Some(edge) ELSE AppendOrSetError(prepared), <<>>,
                    SetWrites(ok))]

\* createEdge.  arg: the two node ids, and the edge id and the creation time
\* taken before the first await.
createEdge(call) ==
  LET from == call.arg.from
      to == call.arg.to
      edge == Edge(call.arg.eid, from, to, call.arg.now)
      prepared == <<prepareAppend(call.given, NidToEdgeYek(from), Lav("nid->edge", <<edge>>, None)),
                    prepareAppend(call.given, NidToEdgeYek(to), Lav("nid->edge", <<edge>>, None))>>
      ok == AllOk(prepared) /\ ~SetRejects(Items(prepared))
  IN [ops |-> ReadOps(call.given, <<Read(NidToEdgeYek(from), TRUE), Read(NidToEdgeYek(to), TRUE)>>)
              \o (IF ok THEN <<SetOp(Items(prepared))>> ELSE <<>>),
      last |-> Call("edge.create", [from |-> from, to |-> to], ok,
                    IF ok THEN Some(edge) ELSE AppendOrSetError(prepared), <<>>,
                    SetWrites(ok))]

\* advanceUserIngestionProgress.  arg: the pipeline id and the new watermark.
advanceUserIngestionProgress(call) ==
  LET epid == call.arg.epid
      progress == [getUserIngestionProgress(call.seen, epid)
                     EXCEPT !.ingested_until = call.arg.ingested_until]
  IN [ops |-> <<GetOp(<<ExtPipelineYek(epid)>>, FALSE),
                SetOp(<<YekLav(ExtPipelineYek(epid),
                               Lav("ext-pipe-id->progress", progress, None))>>)>>,
      last |-> Call("external.ingestion.advance", epid, TRUE, None, <<>>, <<"set">>)]

\* addExternalUserActivity.  arg: the origin and the activity reported.
addExternalUserActivity(call) ==
  LET origin == call.arg.origin
      value == AddedActivity(ActivityValue(call.seen, origin), call.arg.activity)
      ok == ActivityBranch(call.arg.activity) # "invalid"
  IN [ops |-> <<GetOp(<<OriginToActivityYek(origin)>>, FALSE)>>
              \o (IF ok
                  THEN <<SetOp(<<YekLav(OriginToActivityYek(origin),
                                        Lav("origin->activity", value, None))>>)>>
                  ELSE <<>>),
      last |-> Call("activity.external.add", call.arg, ok,
                    IF ok THEN Some([visits |-> value.visits,
                                     seconds_of_attention |-> value.total_seconds_of_attention])
                    ELSE None,
                    <<>>, SetWrites(ok))]

\* recordAssociation.  arg: the two origins and the association type.  The
\* two buckets are read by two gets inside one Promise.all: the substrate
\* serves them one by one, in either order, and other calls in between.  For
\* from = to both gets read one bucket; the handler then throws whatever the
\* two gets were served (store.set rejects the key given twice, and so no
\* bucket ever holds an entry that names its own origin), so one view of the
\* bucket stands for both.
recordAssociation(call) ==
  LET from == call.arg.from
      to == call.arg.to
      outcome == AssociationOutcome(call.seen, from, to, call.arg.association)
  IN [ops |-> Together(<<PartOp(OriginToExtAssociationYek(from), FALSE, <<1, 1>>),
                         PartOp(OriginToExtAssociationYek(to), FALSE, <<2, 1>>)>>,
                       call.answered)
              \o (IF outcome = "recorded"
                  THEN <<SetOp(AssociationRecords(call.seen, from, to, call.arg.association))>>
                  ELSE <<>>),
      last |-> Call("association.record", call.arg,
                    outcome \in {"duplicate", "recorded"}, AssociationResult(outcome), <<>>,
                    SetWrites(outcome = "recorded"))]

\* getNodesByOrigin as a call in flight.  arg: the origin.  The index is read
\* first and the canonical records in one batch get after it.
getNodesByOriginAwaits(call) ==
  LET origin == call.arg
      lav == StoreGet(call.seen, OriginToNidYek(origin))
  IN [ops |-> <<GetOp(<<OriginToNidYek(origin)>>, FALSE)>>
              \o (IF IsSome(lav)
                  THEN <<GetOp([i \in 1..Len(The(lav).value) |->
                                  NidToNodeYek(The(lav).value[i].nid)], FALSE)>>
                  ELSE <<>>),
      last |-> Call("node.getByOrigin", origin, TRUE,
                    Some(getNodesByOrigin(call.seen, origin)), <<>>, <<>>)]

\* Iterator.next.  arg: the id at the iterator's position when next() was
\* called and whether the iterator has been replaced since (see IterateNodes),
\* or nothing when the position was past the end of the snapshot.
iteratorNext(call) ==
  LET lav == StoreGet(call.seen, NidToNodeYek(The(call.arg).nid))
  IN [ops |-> IF IsSome(call.arg) THEN <<GetOp(<<NidToNodeYek(The(call.arg).nid)>>, FALSE)>>
              ELSE <<>>,
      last |-> IF call.arg = None
               THEN Call("iterator.next", None, TRUE, None, <<>>, <<>>)
               ELSE IF lav = None
               THEN Call("iterator.next", None, FALSE, Some("Failed to find node"), <<>>, <<>>)
               ELSE Call("iterator.next", None, TRUE, Some(NodeFromJson(The(lav).value)),
                         <<>>, <<>>)]

\* The handler of a call in flight.
Handler(call) ==
  CASE call.op = "node.create" -> createNode(call)
    [] call.op = "node.update" -> updateNode(call)
    [] call.op = "node.delete" -> deleteNode(call)
    [] call.op = "node.bulkDelete" -> bulkDeleteNodes(call)
    [] call.op = "edge.create" -> createEdge(call)
    [] call.op = "external.ingestion.advance" -> advanceUserIngestionProgress(call)
    [] call.op = "activity.external.add" -> addExternalUserActivity(call)
    [] call.op = "association.record" -> recordAssociation(call)
    [] call.op = "node.getByOrigin" -> getNodesByOriginAwaits(call)
    [] call.op = "iterator.next" -> iteratorNext(call)

\* The handler has no await left: the call has returned or thrown.
Returned(call) == call.pc >= Len(Handler(call).ops)

\* The ids generateEid hands a handler as it resumes: createNode draws the
\* ids of its edges once its last index read has been served, unless one of
\* the index reads threw.
EidsDrawn(call) ==
  IF /\ call.op = "node.create" /\ call.pc = IndexReads(call.arg.args)
     /\ \A i \in 1..call.pc : ~ReadThrows(call.given, CreateNodeReads(call.arg.args)[i])
  THEN Len(call.arg.args.from_nid) + Len(call.arg.args.to_nid)
  ELSE 0

\* What a handler takes from generateEid and from the clock as it resumes,
\* before its next await.
Resumed(call, eid, now) ==
  CASE call.op = "node.create" /\ EidsDrawn(call) > 0 -> [call EXCEPT !.arg.eid = eid]
    [] call.op = "node.update" /\ call.pc = 1 -> [call EXCEPT !.arg.now = now]
    [] OTHER -> call

\* The store once the substrate has served one call.
SubstrateServe(st, op) ==
  CASE op.call = "get" -> st
    [] op.call = "remove" -> StoreRemove(st, op.yeks)
    [] op.call = "set" -> SubstrateSet(st, op.items)

\* The substrate serves `op`, the call a call in flight awaits, and the
\* handler runs on to its next await or to its end: the call, what its
\* handler does from there, and the store after it.
ServeCall(call, op, st, eid, now) ==
  LET read == op.call = "get"
      served == [call EXCEPT
                   !.pc = @ + 1,
                   !.answered = IF read /\ op.part # <<>> THEN @ \cup {op.part} ELSE @,
                   !.seen = IF read /\ ~op.prepare THEN Served(@, st, op.yeks) ELSE @,
                   !.given = IF read /\ op.prepare THEN Served(@, st, op.yeks) ELSE @]
  IN [call |-> Resumed(served, eid, now),
      then |-> Handler(Resumed(served, eid, now)),
      eid |-> eid + EidsDrawn(served),
      store |-> SubstrateServe(st, op)]

\* What `last` holds from the time a call is made until a call returns: the
\* call, and, history, the store it was made on if no other call was in flight.
Made(call) ==
  Call("called", [op |-> call.op, arg |-> call.arg,
                  at |-> IF pending = <<>> THEN store ELSE <<>>], TRUE, None, <<>>, <<>>)

\* A call is made: its handler has run up to its first await.
Start(call) ==
  /\ pending' = Append(pending, call)
  /\ last' = Made(call)

\* The iterator once a next() call has ended: `++this.index`, if the node was
\* found, on the iterator next() was called on, as that iterator is then (an
\* abort() in between has emptied it).  A call made on an iterator that
\* node.iterate has replaced since moves the index of that earlier iterator
\* and leaves `iter` as it is.
IteratorAfter(it, call, result) ==
  IF call.op = "iterator.next" /\ IsSome(call.arg) /\ ~The(call.arg).replaced /\ result.ok
  THEN Some([The(it) EXCEPT !.index = @ + 1])
  ELSE it

\* Call i of those in flight has been served: it returns or throws, or waits
\* at its next await.
Settle(i, next) ==
  /\ store' = next.store
  /\ nextEid' = next.eid
  /\ IF next.call.pc >= Len(next.then.ops)
     THEN /\ last' = next.then.last
          /\ pending' = Without(pending, i)
          /\ iter' = IteratorAfter(iter, next.call, next.then.last)
     ELSE /\ last' = last
          /\ pending' = [pending EXCEPT ![i] = next.call]
          /\ iter' = iter
  /\ UNCHANGED <<nextNid, clock, created, calls>>

\* The substrate calls of a call in flight that the substrate can serve next,
\* as positions among the handler's calls `ops`: the call the handler awaits,
\* or any of the gets in flight of the Promise.all it awaits.
Awaited(call, ops) ==
  IF ops[call.pc + 1].call = "get" /\ ops[call.pc + 1].part # <<>>
  THEN {p \in (call.pc + 1)..Len(ops) : ops[p].call = "get" /\ ops[p].part # <<>>}
  ELSE {call.pc + 1}

\* The substrate serves one of the substrate calls `ops` that call i of those
\* in flight has made.
ServeOneOf(i, call, ops) ==
  \E p \in Awaited(call, ops) : Settle(i, ServeCall(call, ops[p], store, nextEid, clock))

\* The substrate serves call i of those in flight; `call` is the call as its
\* handler holds it.
ServeAs(i, call) == ServeOneOf(i, call, Handler(call).ops)

Serve(i) == ServeAs(i, pending[i])

\* node.get
GetNode(nid) ==
  LET got == getNode(store, nid)
  IN /\ last' = Call("node.get", nid, got.ok, IF got.ok THEN got.node ELSE NotFound,
                     <<>>, <<>>)
     /\ UNCHANGED <<store, nextNid, nextEid, clock, created, pending, iter>>

\* bulkDeleteNodes: the selector names no pipeline, the call throws.
BulkDeleteUnsupported(createdVia) ==
  /\ last' = Call("node.bulkDelete", createdVia, FALSE,
                  Some("Tried to bulk-delete nodes via an unimplemented criteria"), <<>>, <<>>)
  /\ UNCHANGED <<store, nextNid, nextEid, clock, created, pending, iter>>

\* node.similarity.setIndex
SetNodeSimilaritySearchInfo(nid, simsearch) ==
  /\ store' = StoreSet(store, <<YekLav(NidToNodeSimilaritySearchInfoYek(nid),
                                      Lav("nid->sim-search-node", simsearch, None))>>)
  /\ last' = Call("node.similarity.setIndex", nid, TRUE, None, <<>>, <<"set">>)
  /\ UNCHANGED <<nextNid, nextEid, clock, created, pending, iter>>

\* node.similarity.removeIndex
DeleteNodeSimilaritySearchInfo(nid) ==
  /\ store' = StoreRemove(store, <<NidToNodeSimilaritySearchInfoYek(nid)>>)
  /\ last' = Call("node.similarity.removeIndex", nid, TRUE, None, <<>>, <<"remove">>)
  /\ UNCHANGED <<nextNid, nextEid, clock, created, pending, iter>>

\* account.info.get: the stored account info, or nothing (null) when there
\* is none.
GetUserAccountInfo ==
  /\ last' = Call("account.info.get", None, TRUE,
                  IF IsSome(StoreGet(store, UserAccountInfoYek))
                  THEN Some(The(StoreGet(store, UserAccountInfoYek)).value) ELSE None,
                  <<>>, <<>>)
  /\ UNCHANGED <<store, nextNid, nextEid, clock, created, pending, iter>>

\* account.info.set: the account info given is stored with store.set; called
\* with none (null), the record is removed with store.remove.
SetUserAccountInfo(accountInfo) ==
  /\ store' = IF IsSome(accountInfo)
              THEN StoreSet(store, <<YekLav(UserAccountInfoYek,
                                           Lav("account-info", The(accountInfo), None))>>)
              ELSE StoreRemove(store, <<UserAccountInfoYek>>)
  /\ last' = Call("account.info.set", accountInfo, TRUE, None, <<>>,
                  IF IsSome(accountInfo) THEN <<"set">> ELSE <<"remove">>)
  /\ UNCHANGED <<nextNid, nextEid, clock, created, pending, iter>>

\* YekLavStore.set, called with a batch of records.
SetRecords(items) ==
  /\ store' = StoreSet(store, items)
  /\ last' = Call("store.set", items, ~SetRejects(items), None, <<>>,
                  SetWrites(~SetRejects(items)))
  /\ UNCHANGED <<nextNid, nextEid, clock, created, pending, iter>>

\* YekLavStore.prepareAppend, called on its own: the proposal it returns.
PrepareAppend(yek, appended_lav) ==
  LET proposal == prepareAppend(store, yek, appended_lav)
  IN /\ last' = Call("store.prepareAppend", [yek |-> yek, lav |-> appended_lav], proposal.ok,
                     IF proposal.ok THEN Some(YekLav(proposal.yek, proposal.lav)) ELSE None,
                     <<>>, <<>>)
     /\ UNCHANGED <<store, nextNid, nextEid, clock, created, pending, iter>>

\* YekLavStore.prepareRemoval, were it to store the record it proposes.
PrepareRemoval_Commits(yek, criteria) ==
  LET proposal == prepareRemoval(store, yek, criteria)
  IN /\ store' = IF proposal.ok
                 THEN StoreSet(store, <<YekLav(proposal.yek, proposal.lav)>>)
                 ELSE store
     /\ last' = Call("store.prepareRemoval", [yek |-> yek, criteria |-> criteria], proposal.ok,
                     IF proposal.ok THEN Some(YekLav(proposal.yek, proposal.lav)) ELSE None,
                     <<>>, SetWrites(proposal.ok))
     /\ UNCHANGED <<nextNid, nextEid, clock, created, pending, iter>>

\* YekLavStore.prepareRemoval, called on its own: the proposal it returns.
PrepareRemoval(yek, criteria) ==
  LET proposal == prepareRemoval(store, yek, criteria)
  IN /\ last' = Call("store.prepareRemoval", [yek |-> yek, criteria |-> criteria], proposal.ok,
                     IF proposal.ok THEN Some(YekLav(proposal.yek, proposal.lav)) ELSE None,
                     <<>>, <<>>)
     /\ UNCHANGED <<store, nextNid, nextEid, clock, created, pending, iter>>

\* The endpoints the facade builds with throwUnimplementedError.
UnimplementedEndpoints ==
  {"node.url", "blob.upload", "blob.sourceUrl", "blob_index.build", "edge.sticky", "edge.delete"}

\* An unimplemented endpoint, were it to do nothing and return.
ThrowUnimplementedError_NoOp(endpoint) ==
  /\ last' = Call(endpoint, None, TRUE, None, <<>>, <<>>)
  /\ UNCHANGED <<store, nextNid, nextEid, clock, created, pending, iter>>

\* throwUnimplementedError(endpoint)(...): the call throws.
ThrowUnimplementedError(endpoint) ==
  /\ last' = Call(endpoint, None, FALSE,
                  Some("Attempted to call an " \o endpoint \o " endpoint of browser "
                       \o "extension's local StorageApi which hasn't been implemented yet"),
                  <<>>, <<>>)
  /\ UNCHANGED <<store, nextNid, nextEid, clock, created, pending, iter>>

\* YekLavStore.stringify, applied to two keys.
StringifyKeys(a, b) ==
  /\ last' = Call("stringify", <<a, b>>, TRUE, Some(<<stringify(a), stringify(b)>>),
                  <<>>, <<>>)
  /\ UNCHANGED <<store, nextNid, nextEid, clock, created, pending, iter>>

\* node.batch.get
GetNodeBatch(nids) ==
  /\ last' = Call("node.batch.get", nids, TRUE, Some([nodes |-> getNodeBatch(store, nids)]),
                  <<>>, <<>>)
  /\ UNCHANGED <<store, nextNid, nextEid, clock, created, pending, iter>>

\* external.ingestion.get
GetUserIngestionProgress(epid) ==
  /\ last' = Call("external.ingestion.get", epid, TRUE,
                  Some(getUserIngestionProgress(store, epid)), <<>>, <<>>)
  /\ UNCHANGED <<store, nextNid, nextEid, clock, created, pending, iter>>

\* node.getAllNids
GetAllNids ==
  /\ last' = Call("node.getAllNids", None, TRUE, Some(getAllNids(store)), <<>>, <<>>)
  /\ UNCHANGED <<store, nextNid, nextEid, clock, created, pending, iter>>

\* The calls in flight once node.iterate has made a new iterator: a next()
\* call in flight was made on an iterator that `iter` no longer is.
OnEarlierIterator(inFlight) ==
  [k \in 1..Len(inFlight) |->
     IF inFlight[k].op = "iterator.next"
     THEN [inFlight[k] EXCEPT !.arg = Some([The(@) EXCEPT !.replaced = TRUE])]
     ELSE inFlight[k]]

\* node.iterate, were it to take the listing in stored order.
IterateNodes_Unsorted ==
  /\ iter' = Some([nids |-> getAllNids_Unsorted(store), index |-> 0])
  /\ last' = Call("node.iterate", None, TRUE, None, <<>>, <<>>)
  /\ pending' = OnEarlierIterator(pending)
  /\ UNCHANGED <<store, nextNid, nextEid, clock, created>>

\* node.iterate: Iterator.create snapshots the id listing into a new
\* iterator.  `iter` is the iterator made last, the one later next() and
\* abort() calls are made on; an iterator made earlier is followed no further.
IterateNodes ==
  /\ iter' = Some([nids |-> getAllNids(store), index |-> 0])
  /\ last' = Call("node.iterate", None, TRUE, None, <<>>, <<>>)
  /\ pending' = OnEarlierIterator(pending)
  /\ UNCHANGED <<store, nextNid, nextEid, clock, created>>

\* Iterator.total
IteratorTotal(it) == it.index

\* Iterator.abort
IteratorAbort ==
  /\ IsSome(iter)
  /\ iter' = Some([nids |-> <<>>, index |-> 0])
  /\ last' = Call("iterator.abort", None, TRUE, None, <<>>, <<>>)
  /\ UNCHANGED <<store, nextNid, nextEid, clock, created, pending>>

\* unixtime.now() moves on.
Tick ==
  /\ clock < MaxClock
  /\ clock' = clock + 1
  /\ UNCHANGED <<store, nextNid, nextEid, created, last, pending, calls, iter>>

\* ------------------------------------------------------------ calls that await more than once
\* node.create, were generateNid to hand out the id it handed out before.
StartCreateNode_ReusesNid(args) ==
  /\ Start(InFlight("node.create", [args |-> args, nid |-> 1, now |-> clock, eid |-> 0]))
  /\ nextNid' = nextNid + 1
  /\ created' = Append(created, args)
  /\ UNCHANGED <<store, nextEid, clock, iter>>

\* node.create is called: the id and the creation time are taken before the
\* first await.
StartCreateNode(args) ==
  /\ Start(InFlight("node.create", [args |-> args, nid |-> nextNid, now |-> clock, eid |-> 0]))
  /\ nextNid' = nextNid + 1
  /\ created' = Append(created, args)
  /\ UNCHANGED <<store, nextEid, clock, iter>>

\* node.update is called.
StartUpdateNode(args) ==
  /\ Start(InFlight("node.update", [args |-> args, now |-> 0]))
  /\ UNCHANGED <<store, nextNid, nextEid, clock, created, iter>>

\* node.delete is called: the 'will-delete' event is registered before the
\* first await.
StartDeleteNode(nid) ==
  /\ Start(InFlight("node.delete", nid))
  /\ UNCHANGED <<store, nextNid, nextEid, clock, created, iter>>

\* node.bulkDelete, were it to lack the check of its selector and find no
\* nodes for a selector that names no pipeline.
StartBulkDeleteNodes_NoSelectorCheck(createdVia) ==
  IF "autoIngestion" \in DOMAIN createdVia
  THEN /\ Start(InFlight("node.bulkDelete", createdVia.autoIngestion))
       /\ UNCHANGED <<store, nextNid, nextEid, clock, created, iter>>
  ELSE /\ last' = Call("node.bulkDelete", createdVia, TRUE, Some(0), <<>>, <<"remove", "set">>)
       /\ UNCHANGED <<store, nextNid, nextEid, clock, created, pending, iter>>

\* node.bulkDelete is called: a selector that names no pipeline throws before
\* any await.
StartBulkDeleteNodes(createdVia) ==
  IF "autoIngestion" \in DOMAIN createdVia
  THEN /\ Start(InFlight("node.bulkDelete", createdVia.autoIngestion))
       /\ UNCHANGED <<store, nextNid, nextEid, clock, created, iter>>
  ELSE BulkDeleteUnsupported(createdVia)

\* edge.create is called: the creation time and the edge id are taken before
\* the first await.
StartCreateEdge(from, to) ==
  /\ Start(InFlight("edge.create", [from |-> from, to |-> to, eid |-> nextEid, now |-> clock]))
  /\ nextEid' = nextEid + 1
  /\ UNCHANGED <<store, nextNid, clock, created, iter>>

\* external.ingestion.advance is called.
StartAdvanceUserIngestionProgress(epid, ingested_until) ==
  /\ Start(InFlight("external.ingestion.advance",
                    [epid |-> epid, ingested_until |-> ingested_until]))
  /\ UNCHANGED <<store, nextNid, nextEid, clock, created, iter>>

\* activity.external.add is called.
StartAddExternalUserActivity(origin, activity) ==
  /\ Start(InFlight("activity.external.add", [origin |-> origin, activity |-> activity]))
  /\ UNCHANGED <<store, nextNid, nextEid, clock, created, iter>>

\* activity.association.record is called.
StartRecordAssociation(from, to, association) ==
  /\ Start(InFlight("association.record",
                    [from |-> from, to |-> to, association |-> association]))
  /\ UNCHANGED <<store, nextNid, nextEid, clock, created, iter>>

\* node.getByOrigin is called.
StartGetNodesByOrigin(origin) ==
  /\ Start(InFlight("node.getByOrigin", origin))
  /\ UNCHANGED <<store, nextNid, nextEid, clock, created, iter>>

\* Iterator.next is called: the position is compared with the snapshot's
\* length, and the call returns at once when it is past the end; otherwise
\* the id at the position is taken before the await.
StartIteratorNext ==
  /\ IsSome(iter)
  /\ IF The(iter).index >= Len(The(iter).nids)
     THEN /\ last' = iteratorNext(InFlight("iterator.next", None)).last
          /\ pending' = pending
     ELSE Start(InFlight("iterator.next",
                         Some([nid |-> The(iter).nids[The(iter).index + 1],
                               replaced |-> FALSE])))
  /\ UNCHANGED <<store, nextNid, nextEid, clock, created, iter>>

\* Call i, still in flight, ends with what its handler holds: no substrate
\* call is served.
Ends(i, call) ==
  /\ last' = Handler(call).last
  /\ pending' = Without(pending, i)
  /\ UNCHANGED <<store, nextNid, nextEid, clock, created, calls, iter>>

\* node.create, were it to append to the listing as stored at the time of
\* each of its substrate calls.
ResumeCreateNode_RereadsListing(i) ==
  /\ pending[i].op = "node.create"
  /\ ServeAs(i, [pending[i] EXCEPT !.given = Served(@, store, <<AllNidsYek>>)])

\* The substrate serves a node.create call in flight.
ResumeCreateNode(i) ==
  /\ pending[i].op = "node.create"
  /\ Serve(i)

\* activity.association.record, were it to read the two buckets again at the
\* time of its checks and its write.
ResumeRecordAssociation_Rereads(i) ==
  LET call == [pending[i] EXCEPT !.seen =
                 Served(@, store, <<OriginToExtAssociationYek(pending[i].arg.from),
                                    OriginToExtAssociationYek(pending[i].arg.to)>>)]
  IN /\ pending[i].op = "association.record"
     /\ IF Returned(call) THEN Ends(i, call) ELSE ServeAs(i, call)

\* The substrate serves an activity.association.record call in flight.
ResumeRecordAssociation(i) ==
  /\ pending[i].op = "association.record"
  /\ Serve(i)

\* activity.external.add, were the total kept apart from the list and read
\* again at the time of the write.
ResumeAddExternalUserActivity_RereadsTotal(i) ==
  LET origin == pending[i].arg.origin
      value == [ActivityValue(pending[i].seen, origin) EXCEPT
                  !.total_seconds_of_attention =
                     ActivityValue(store, origin).total_seconds_of_attention]
      reread == [k \in {stringify(OriginToActivityYek(origin))} |->
                   Lav("origin->activity", value, None)]
  IN /\ pending[i].op = "activity.external.add"
     /\ ServeAs(i, [pending[i] EXCEPT !.seen = reread @@ @])

\* The substrate serves an activity.external.add call in flight.
ResumeAddExternalUserActivity(i) ==
  /\ pending[i].op = "activity.external.add"
  /\ Serve(i)

\* ------------------------------------------------------------ specifications
Init ==
  /\ store = <<>>
  /\ nextNid = 1
  /\ nextEid = 1
  /\ clock = 1
  /\ created = <<>>
  /\ last = Call("none", None, TRUE, None, <<>>, <<>>)
  /\ pending = <<>>
  /\ calls = [made |-> 0, overlaps |-> 0]
  /\ iter = None

OptionalOf(S) == {None} \cup {Some(x) : x \in S}

\* Neighbour lists of a node.create call: at most two ids, repeats allowed.
NeighbourLists ==
  {<<>>} \cup {<<a>> : a \in KnownNids} \cup {<<a, b>> : a \in KnownNids, b \in KnownNids}

\* The arguments of node.create that decide which records it writes; the
\* content fields are held fixed and the creation time is the clock's.
StructureArgs ==
  [ntype : {None}, text : {"text"}, extattrs : {None}, index_text : {None},
   created_at : {None},
   origin : OptionalOf(Origins),
   created_via : OptionalOf([autoIngestion : Pipelines]),
   from_nid : NeighbourLists, to_nid : NeighbourLists]

\* StructureArgs of a node created under no origin.
LinkArgs == {args \in StructureArgs : args.origin = None}

\* StructureArgs of a node created without neighbours.
IndexedArgs == {args \in StructureArgs : args.from_nid = <<>> /\ args.to_nid = <<>>}

\* StructureArgs of a node created under the first origin or none, with at
\* most one neighbour.
TaggedArgs ==
  {args \in StructureArgs : /\ Len(args.from_nid) + Len(args.to_nid) <= 1
                            /\ args.origin # Some([id |-> 2])}

\* TaggedArgs of a node created by hand (no pipeline).
ManualArgs == {args \in TaggedArgs : args.created_via = None}

TouchArgs ==
  [nid : KnownNids, text : {None}, index_text : {None}, preserve_update_time : {FALSE}]

\* generateNid and generateEid have ids left to hand out.
NidsLeft == nextNid <= MaxNodes
EidsLeft(n) == nextEid + n <= MaxEdges + 1

\* A call made is counted.
Counted ==
  calls' = [made |-> IF calls.made < MaxCalls THEN calls.made + 1 ELSE calls.made,
            overlaps |-> IF pending = <<>> \/ calls.overlaps = MaxOverlaps
                         THEN calls.overlaps ELSE calls.overlaps + 1]

\* Where calls are made one at a time: a call is made while no other is in
\* flight, or, as one of the first MaxCalls calls, while another is; no call
\* is made once MaxOverlaps calls were made while another was in flight.
MayCall ==
  /\ calls.overlaps < MaxOverlaps
  /\ pending = <<>> \/ (Len(pending) < MaxPending /\ calls.made < MaxCalls)

\* The substrate serves a call in flight.
DoResumeCreateNode == \E i \in 1..Len(pending) : ResumeCreateNode(i)
DoServe == \E i \in 1..Len(pending) : pending[i].op # "node.create" /\ Serve(i)

DoCreateNode ==
  \E args \in LinkArgs :
    /\ NidsLeft /\ EidsLeft(Len(args.from_nid) + Len(args.to_nid))
    /\ MayCall /\ StartCreateNode(args) /\ Counted
DoCreateIndexedNode ==
  \E args \in IndexedArgs : NidsLeft /\ MayCall /\ StartCreateNode(args) /\ Counted
DoCreateTaggedNode ==
  \E args \in TaggedArgs :
    /\ NidsLeft /\ EidsLeft(Len(args.from_nid) + Len(args.to_nid))
    /\ MayCall /\ StartCreateNode(args) /\ Counted
DoCreateManualNode ==
  \E args \in ManualArgs :
    /\ NidsLeft /\ EidsLeft(Len(args.from_nid) + Len(args.to_nid))
    /\ MayCall /\ StartCreateNode(args) /\ Counted
DoUpdateNode == \E args \in TouchArgs : MayCall /\ StartUpdateNode(args) /\ Counted
DoDeleteNode == \E nid \in KnownNids : MayCall /\ StartDeleteNode(nid) /\ Counted
DoBulkDeleteNodes ==
  \E epid \in Pipelines : MayCall /\ StartBulkDeleteNodes([autoIngestion |-> epid]) /\ Counted
DoCreateEdge ==
  \E from \in KnownNids, to \in KnownNids :
    EidsLeft(1) /\ MayCall /\ StartCreateEdge(from, to) /\ Counted
DoSetSimilarity ==
  \E nid \in KnownNids : MayCall /\ SetNodeSimilaritySearchInfo(nid, "simsearch") /\ Counted
DoRemoveSimilarity ==
  \E nid \in KnownNids : MayCall /\ DeleteNodeSimilaritySearchInfo(nid) /\ Counted
DoAdvance ==
  \E epid \in Pipelines :
    MayCall /\ StartAdvanceUserIngestionProgress(epid, clock) /\ Counted

\* Nodes and edges, the nodes created by hand or by a pipeline under no
\* origin: the calls are made in any order.
Next ==
  \/ DoCreateNode
  \/ DoUpdateNode
  \/ DoDeleteNode
  \/ DoBulkDeleteNodes
  \/ DoCreateEdge
  \/ DoResumeCreateNode
  \/ DoServe

Spec == Init /\ [][Next]_vars

\* Single-node delete of nodes with origins and similarity-search records.
NextOrigin ==
  \/ DoCreateManualNode
  \/ DoCreateEdge
  \/ DoSetSimilarity
  \/ DoRemoveSimilarity
  \/ DoDeleteNode
  \/ DoResumeCreateNode
  \/ DoServe

SpecOrigin == Init /\ [][NextOrigin]_vars

\* Pipeline-created nodes, the pipeline's watermark and bulk delete.
NextPipeline ==
  \/ DoCreateTaggedNode
  \/ DoCreateEdge
  \/ DoAdvance
  \/ DoBulkDeleteNodes
  \/ DoResumeCreateNode
  \/ DoServe

SpecPipeline == Init /\ [][NextPipeline]_vars

\* The watermark of a pipeline: advanced to any value, read, and removed by
\* bulk delete together with the pipeline's nodes.
PipelineArgs ==
  {args \in StructureArgs : args.created_via # None /\ args.from_nid = <<>> /\ args.to_nid = <<>>}

DoCreatePipelineNode ==
  \E args \in PipelineArgs : NidsLeft /\ MayCall /\ StartCreateNode(args) /\ Counted
DoAdvanceTo ==
  \E epid \in Pipelines, ingested_until \in 0..MaxWatermark :
    MayCall /\ StartAdvanceUserIngestionProgress(epid, ingested_until) /\ Counted
DoGetProgress == \E epid \in Pipelines : MayCall /\ GetUserIngestionProgress(epid) /\ Counted

\* Selectors of node.bulkDelete that name no pipeline.
OtherSelectors == {[manualAction |-> None], [x \in {} |-> None]}

DoBulkDeleteOther ==
  \E createdVia \in OtherSelectors : MayCall /\ StartBulkDeleteNodes(createdVia) /\ Counted

NextIngestion ==
  \/ DoCreatePipelineNode
  \/ DoAdvanceTo
  \/ DoGetProgress
  \/ DoBulkDeleteNodes
  \/ DoBulkDeleteOther
  \/ DoResumeCreateNode
  \/ DoServe

SpecIngestion == Init /\ [][NextIngestion]_vars

\* Activity reports: visits, attention events of 5 and 7 seconds, and
\* requests that carry neither.
AttentionSeconds == {5, 7}

Activities ==
  [visit : OptionalOf([visits : {<<[timestamp |-> 1]>>}, reported_by : OptionalOf(Pipelines)]),
   attention : OptionalOf([seconds : AttentionSeconds, timestamp : {1}])]

ActivitiesStored(st, origin) ==
  Len(ActivityValue(st, origin).visits) + Len(ActivityValue(st, origin).attentions)

DoAddActivity ==
  \E origin \in Origins, activity \in Activities :
    /\ ActivitiesStored(store, origin) < MaxActivities
    /\ MayCall /\ StartAddExternalUserActivity(origin, activity) /\ Counted

NextActivity ==
  \/ DoAddActivity
  \/ DoServe

SpecActivity == Init /\ [][NextActivity]_vars

\* Activity reports on one origin whose calls overlap any number of times (the
\* calls are not counted): a call is made while another is in flight, and the
\* calls in flight resume in any order.  The reports are a visit, an attention
\* event of 5 or 7 seconds, or neither.
OverlappingActivities ==
  {activity \in Activities :
     /\ activity.visit = None \/ activity.attention = None
     /\ IsSome(activity.visit) => The(activity.visit).reported_by = None}

DoStartAddActivity ==
  \E origin \in {[id |-> 1]}, activity \in OverlappingActivities :
    /\ Len(pending) < MaxPending
    /\ ActivitiesStored(store, origin) < MaxOverlapEntries
    /\ StartAddExternalUserActivity(origin, activity)
    /\ UNCHANGED calls

DoResumeAddActivity == \E i \in 1..Len(pending) : ResumeAddExternalUserActivity(i)

NextOverlappingActivity ==
  \/ DoStartAddActivity
  \/ DoResumeAddActivity

SpecOverlappingActivity == Init /\ [][NextOverlappingActivity]_vars

\* Reads and updates of nodes that exist, were deleted or were never created.
PlainArgs ==
  {args \in StructureArgs : /\ args.created_via = None
                            /\ args.from_nid = <<>> /\ args.to_nid = <<>>}

BatchRequests ==
  UNION {[1..n -> 1..MaxNodes] : n \in 0..MaxBatch}

DoCreatePlainNode ==
  \E args \in PlainArgs : NidsLeft /\ MayCall /\ StartCreateNode(args) /\ Counted
DoGetNodeBatch == \E nids \in BatchRequests : MayCall /\ GetNodeBatch(nids) /\ Counted
DoGetNode == \E nid \in 1..MaxNodes : MayCall /\ GetNode(nid) /\ Counted
DoUnimplemented ==
  \E endpoint \in UnimplementedEndpoints :
    MayCall /\ ThrowUnimplementedError(endpoint) /\ Counted

NextBatch ==
  \/ DoCreatePlainNode
  \/ DoDeleteNode
  \/ DoGetNodeBatch
  \/ DoGetNode
  \/ DoUpdateNode
  \/ DoUnimplemented
  \/ DoResumeCreateNode
  \/ DoServe

SpecBatch == Init /\ [][NextBatch]_vars

\* Nodes of an origin: created, deleted and read back by origin.  With
\* edge.create a node can get two edges to one neighbour, and its delete then
\* leaves its id in the origin index without a canonical record.
DoGetNodesByOrigin ==
  \E origin \in Origins : MayCall /\ StartGetNodesByOrigin(origin) /\ Counted

NextByOrigin ==
  \/ DoCreatePlainNode
  \/ DoCreateEdge
  \/ DoDeleteNode
  \/ DoGetNodesByOrigin
  \/ DoResumeCreateNode
  \/ DoServe

SpecByOrigin == Init /\ [][NextByOrigin]_vars

\* Batches handed to YekLavStore.set: keys and values of two kinds, so that
\* a batch may pair a key with a value of the other kind or name a key twice.
SampleYeks == {NidToNodeSimilaritySearchInfoYek(1), UserAccountInfoYek}
SampleLavs ==
  {Lav("nid->sim-search-node", "x", None), Lav("nid->sim-search-node", "y", None),
   Lav("account-info", "info", None)}
SampleBatches ==
  UNION {[1..n -> {YekLav(yek, lav) : yek \in SampleYeks, lav \in SampleLavs}] : n \in 0..MaxBatch}

\* The account infos account.info.set is given.
AccountInfos == {"info", "other info"}

DoSetRecords == \E items \in SampleBatches : MayCall /\ SetRecords(items) /\ Counted
DoSetAccountInfo ==
  \E accountInfo \in OptionalOf(AccountInfos) :
    MayCall /\ SetUserAccountInfo(accountInfo) /\ Counted
DoGetAccountInfo == MayCall /\ GetUserAccountInfo /\ Counted

NextStore ==
  \/ DoSetRecords
  \/ DoSetAccountInfo
  \/ DoGetAccountInfo

SpecStore == Init /\ [][NextStore]_vars

\* prepareAppend and prepareRemoval called on keys of four array kinds and on
\* the key of a canonical record, each proposal either dropped or passed to
\* set; node.create provides the canonical record, and the pipeline index has
\* no record.
MaxProposed == 2

PrepareYeks ==
  {AllNidsYek, OriginToNidYek([id |-> 1]), NidToEdgeYek(1),
   ExtPipelineToNidYek([pipeline_key |-> 1]), NidToNodeYek(1)}

AppendedLavs ==
  {Lav("all-nids", <<[nid |-> 2, created_at |-> 0]>>, None),
   Lav("origin->nid", <<[nid |-> 1]>>, None),
   Lav("origin->nid", <<[nid |-> 2]>>, None),
   Lav("nid->edge", <<Edge(1, 1, 2, 0)>>, None)}

RemovalCriteria == {<<1>>, <<1, 2>>}

DoPrepareAppend ==
  \E yek \in PrepareYeks, lav \in AppendedLavs :
    MayCall /\ PrepareAppend(yek, lav) /\ Counted
DoPrepareRemoval ==
  \E yek \in PrepareYeks, criteria \in RemovalCriteria :
    MayCall /\ PrepareRemoval(yek, criteria) /\ Counted
DoCommitProposal ==
  /\ last.op \in {"store.prepareAppend", "store.prepareRemoval"} /\ last.ok
  /\ The(last.ret).yek.kind \in ArrayKinds
  /\ Len(The(last.ret).lav.value) <= MaxProposed
  /\ MayCall /\ SetRecords(<<The(last.ret)>>) /\ Counted
DoCreateFirstNode ==
  \E args \in PlainArgs :
    /\ args.origin = None /\ nextNid = 1
    /\ MayCall /\ StartCreateNode(args) /\ Counted

NextPrepare ==
  \/ DoCreateFirstNode
  \/ DoPrepareAppend
  \/ DoPrepareRemoval
  \/ DoCommitProposal
  \/ DoResumeCreateNode

SpecPrepare == Init /\ [][NextPrepare]_vars

\* node.update with each of text and index text given or omitted and the
\* update time bumped or preserved, on nodes that have origins and edges.
UpdateArgs ==
  [nid : KnownNids, text : OptionalOf({"new text"}), index_text : OptionalOf({"new index text"}),
   preserve_update_time : BOOLEAN]

\* Updates that give the text or the index text.
OverlapUpdates ==
  {args \in UpdateArgs : /\ ~args.preserve_update_time
                         /\ (args.text = None) # (args.index_text = None)}

DoUpdateContent == \E args \in UpdateArgs : MayCall /\ StartUpdateNode(args) /\ Counted
DoCreateInboundNode ==
  \E args \in {args \in ManualArgs : args.to_nid = <<>>} :
    /\ NidsLeft /\ EidsLeft(Len(args.from_nid))
    /\ MayCall /\ StartCreateNode(args) /\ Counted

NextUpdate ==
  \/ DoCreateInboundNode
  \/ DoUpdateContent
  \/ Tick
  \/ DoResumeCreateNode
  \/ DoServe

SpecUpdate == Init /\ [][NextUpdate]_vars

\* Nodes of one pipeline, with or without an origin and without edges: deleted
\* one by one and in bulk.
MaxPipelineNodes == 3

DoCreateIngestedNode ==
  \E args \in PipelineArgs :
    nextNid <= MaxPipelineNodes /\ MayCall /\ StartCreateNode(args) /\ Counted

NextPipelineDelete ==
  \/ DoCreateIngestedNode
  \/ DoDeleteNode
  \/ DoBulkDeleteNodes
  \/ DoResumeCreateNode
  \/ DoServe

SpecPipelineDelete == Init /\ [][NextPipelineDelete]_vars

\* node.create, node.delete and node.bulkDelete of nodes without neighbours.
NextCreateDelete ==
  \/ DoCreateIndexedNode
  \/ DoDeleteNode
  \/ DoBulkDeleteNodes
  \/ DoResumeCreateNode
  \/ DoServe

SpecCreateDelete == Init /\ [][NextCreateDelete]_vars

\* Nodes with origins and pipelines, and edges between them: the nodes are
\* created, linked by edge.create, updated any number of times (the text or
\* the index text) and deleted.
DoUpdateText == \E args \in OverlapUpdates : MayCall /\ StartUpdateNode(args) /\ Counted

NextUpdateDelete ==
  \/ DoCreateIndexedNode
  \/ DoCreateEdge
  \/ DoUpdateText
  \/ DoDeleteNode
  \/ DoResumeCreateNode
  \/ DoServe

SpecUpdateDelete == Init /\ [][NextUpdateDelete]_vars

\* An iterator, with nodes created and deleted between its next() calls.
DoIterateNodes == MayCall /\ IterateNodes /\ Counted
DoIteratorNext == MayCall /\ StartIteratorNext /\ Counted
DoIteratorAbort == MayCall /\ IteratorAbort /\ Counted

NextIterator ==
  \/ DoCreatePlainNode
  \/ DoDeleteNode
  \/ DoIterateNodes
  \/ DoIteratorNext
  \/ DoIteratorAbort
  \/ DoResumeCreateNode
  \/ DoServe

SpecIterator == Init /\ [][NextIterator]_vars

\* Keys of every kind, with payloads of one and of two digits.
KeyPayloads == {1, 2, 11, 12}

SampleKeys ==
  {AllNidsYek, UserAccountInfoYek}
  \cup {Yek(kind, nid) : kind \in {"nid->node", "nid->edge", "nid->sim-search-node"},
                          nid \in KeyPayloads}
  \cup {Yek(kind, [id |-> id]) : kind \in {"origin->nid", "origin->activity", "origin->ext-assoc"},
                                  id \in KeyPayloads}
  \cup {Yek(kind, [pipeline_key |-> key]) : kind \in {"ext-pipe-id->progress", "ext-pipe-id->nid"},
                                            key \in KeyPayloads}

DoStringifyKeys ==
  \E a \in SampleKeys, b \in SampleKeys : MayCall /\ StringifyKeys(a, b) /\ Counted

NextCodec == DoStringifyKeys

SpecCodec == Init /\ [][NextCodec]_vars

\* Associations between three origins.
AssociatedOrigins == [id : {1, 2, 3}]

DoRecordAssociation ==
  \E from \in AssociatedOrigins, to \in AssociatedOrigins, association \in AssociationTypes :
    MayCall /\ StartRecordAssociation(from, to, association) /\ Counted

NextAssociation ==
  \/ DoRecordAssociation
  \/ DoServe

SpecAssociation == Init /\ [][NextAssociation]_vars

\* Associations recorded by calls that overlap any number of times (the calls
\* are not counted): a call is made while another is in flight as long as the
\* buckets hold fewer than MaxOverlapEntries entries, and the calls in flight
\* resume in any order.  The handler only copies the association type, so one
\* type is enough here.
StoredAssociationEntries ==
  LET origins == CHOOSE seq \in [1..Cardinality(AssociatedOrigins) -> AssociatedOrigins] :
                   Range(seq) = AssociatedOrigins
  IN Len(Flatten([i \in 1..Len(origins) |-> AssociationBucket(store, origins[i])]))

DoStartRecordAssociation ==
  \E from \in AssociatedOrigins, to \in AssociatedOrigins, association \in {"web_transition"} :
    /\ pending = <<>> \/ (Len(pending) < MaxPending
                          /\ StoredAssociationEntries < MaxOverlapEntries)
    /\ StartRecordAssociation(from, to, association)
    /\ UNCHANGED calls

DoResumeRecordAssociation == \E i \in 1..Len(pending) : ResumeRecordAssociation(i)

NextOverlappingAssociation ==
  \/ DoStartRecordAssociation
  \/ DoResumeRecordAssociation

SpecOverlappingAssociation == Init /\ [][NextOverlappingAssociation]_vars

\* Creation times: given by the caller or read from the clock, in any order.
ListingArgs ==
  [ntype : {None}, text : {"text"}, extattrs : {None}, index_text : {None},
   created_at : OptionalOf(1..MaxClock),
   origin : {None}, created_via : {None}, from_nid : {<<>>}, to_nid : {<<>>}]

DoCreateListedNode ==
  \E args \in ListingArgs :
    nextNid <= MaxListed /\ MayCall /\ StartCreateNode(args) /\ Counted

NextListing ==
  \/ DoCreateListedNode
  \/ Tick
  \/ DoResumeCreateNode

SpecListing == Init /\ [][NextListing]_vars

\* Calls on nodes, edges and pipelines that overlap any number of times, every
\* call counted against MaxCalls: a call is made while another is in flight,
\* and the substrate serves the calls in flight in any order.  Nodes are
\* created by hand under one origin or by one pipeline without an origin.
OverlapArgs ==
  {args \in StructureArgs : /\ args.origin = None <=> IsSome(args.created_via)
                            /\ args.origin # Some([id |-> 2])
                            /\ args.from_nid = <<>> /\ args.to_nid = <<>>}

\* Where calls overlap any number of times: a call can be made; a call made
\* is counted.
CallsLeft == Len(pending) < MaxPending /\ calls.made < MaxCalls
CountedMade == calls' = [calls EXCEPT !.made = @ + 1]

DoStartCreateNode == \E args \in OverlapArgs : NidsLeft /\ CallsLeft /\ StartCreateNode(args)
DoStartUpdateNode == \E args \in OverlapUpdates : CallsLeft /\ StartUpdateNode(args)
DoStartDeleteNode == \E nid \in KnownNids : CallsLeft /\ StartDeleteNode(nid)
DoStartBulkDeleteNodes ==
  \E epid \in Pipelines : CallsLeft /\ StartBulkDeleteNodes([autoIngestion |-> epid])
DoStartCreateEdge ==
  \E from \in KnownNids, to \in KnownNids :
    EidsLeft(1) /\ CallsLeft /\ StartCreateEdge(from, to)
DoStartAdvance ==
  \E epid \in Pipelines, ingested_until \in 1..MaxWatermark :
    CallsLeft /\ StartAdvanceUserIngestionProgress(epid, ingested_until)

NextOverlapping ==
  \/ DoStartCreateNode /\ CountedMade
  \/ DoStartUpdateNode /\ CountedMade
  \/ DoStartDeleteNode /\ CountedMade
  \/ DoStartBulkDeleteNodes /\ CountedMade
  \/ DoStartCreateEdge /\ CountedMade
  \/ DoStartAdvance /\ CountedMade
  \/ DoResumeCreateNode
  \/ DoServe

SpecOverlapping == Init /\ [][NextOverlapping]_vars

\* Reads that overlap with node.create, node.delete and each other:
\* node.getAllNids between the substrate calls of a delete, node.getByOrigin
\* between its index read and its batch get, and Iterator.next between taking
\* the id at its position and moving on.  The nodes are created by hand under
\* one origin.
DoStartCreateOriginNode ==
  \E args \in {args \in OverlapArgs : IsSome(args.origin)} :
    NidsLeft /\ CallsLeft /\ StartCreateNode(args)
DoStartGetNodesByOrigin == CallsLeft /\ StartGetNodesByOrigin([id |-> 1])
DoStartIteratorNext == CallsLeft /\ StartIteratorNext

NextOverlappingReads ==
  \/ DoStartCreateOriginNode /\ CountedMade
  \/ DoStartDeleteNode /\ CountedMade
  \/ DoStartGetNodesByOrigin /\ CountedMade
  \/ DoStartIteratorNext /\ CountedMade
  \/ DoResumeCreateNode
  \/ DoServe
  \/ GetAllNids /\ UNCHANGED calls
  \/ IterateNodes /\ UNCHANGED calls

SpecOverlappingReads == Init /\ [][NextOverlappingReads]_vars

\* An iterator over nodes of any creation times, with nothing created or
\* deleted once it has been constructed.
DoCreateNodeBeforeIterating == iter = None /\ DoCreateListedNode
DoDeleteNodeBeforeIterating == iter = None /\ DoDeleteNode

NextIteration ==
  \/ DoCreateNodeBeforeIterating
  \/ DoDeleteNodeBeforeIterating
  \/ Tick
  \/ DoIterateNodes
  \/ DoIteratorNext
  \/ DoResumeCreateNode
  \/ DoServe

SpecIteration == Init /\ [][NextIteration]_vars

\* Content fields and creation times of node.create, each given or omitted.
ContentArgs ==
  [ntype : OptionalOf(NodeTypes), text : {"a", "b"},
   extattrs : OptionalOf({"extattrs"}), index_text : OptionalOf({"index text"}),
   created_at : OptionalOf(1..MaxClock),
   origin : {None}, created_via : {None}, from_nid : {<<>>}, to_nid : {<<>>}]

DoCreateContentNode ==
  \E args \in ContentArgs :
    nextNid <= MaxContentNodes /\ MayCall /\ StartCreateNode(args) /\ Counted

NextContent ==
  \/ DoCreateContentNode
  \/ Tick
  \/ DoResumeCreateNode

SpecContent == Init /\ [][NextContent]_vars

\* ------------------------------------------------------------ what the claims speak of
\* The ids in the global listing, and the ids that have a canonical record.
ListedNids(st) == {tag.nid : tag \in Range(ValueOrEmpty(st, AllNidsYek))}
HasNode(st, nid) == IsSome(StoreGet(st, NidToNodeYek(nid)))
CanonicalNids(st) == {nid \in KnownNids : HasNode(st, nid)}

\* The adjacency bucket of a node, and the other endpoint of one of its edges.
Bucket(st, nid) == ValueOrEmpty(st, NidToEdgeYek(nid))
OtherEnd(edge, nid) == IF edge.from_nid = nid THEN edge.to_nid ELSE edge.from_nid
Touches(edge, nid) == edge.from_nid = nid \/ edge.to_nid = nid

\* The origin and the pipeline a canonical record is tagged with.
OriginOf(st, nid) == The(StoreGet(st, NidToNodeYek(nid))).auxiliary.origin
PipelineOf(st, nid) == The(StoreGet(st, NidToNodeYek(nid))).auxiliary.created_via

\* The step is the return of a call of the named operation: a call writes
\* `last` as it returns or throws, and it is no longer in flight, if it was;
\* the clock's own step leaves `last` alone.
Called(op) ==
  /\ last'.op = op /\ clock' = clock
  /\ pending' = pending \/ Len(pending') < Len(pending)

\* The calls were made one at a time: no call is in flight, and none was ever
\* made while another was.
InTurn == pending = <<>> /\ calls.overlaps = 0

\* The step is the return of a call of the named operation, the calls having
\* been made one at a time up to and including this one.
CalledInTurn(op) == Called(op) /\ calls'.overlaps = 0

\* The store as it was when the call that returns in this step was made, for
\* a call made while no other was in flight and alone in flight since.
Before == IF pending # <<>> /\ last.op = "called" THEN last.arg.at ELSE store

\* ------------------------------------------------------------ C1
\* C1: between calls made one at a time, the set of ids in the global listing
\* 'all-nids' equals the set of ids that have a canonical 'nid->node' record.
C1_ListingMatchesCanonical == InTurn => ListedNids(store) = CanonicalNids(store)

\* ------------------------------------------------------------ C2
\* C2: between calls made one at a time, every edge stored in the adjacency
\* bucket of one of its endpoints is also stored, identically, in the bucket
\* of its other endpoint.
C2_EdgeHasCounterpart ==
  InTurn =>
    \A nid \in KnownNids :
      \A edge \in Range(Bucket(store, nid)) :
        edge \in Range(Bucket(store, OtherEnd(edge, nid)))

\* ------------------------------------------------------------ C4
\* C4: node.delete(A) of an existing node A succeeds, and afterwards no
\* adjacency bucket holds an edge from or to A, A is absent from the global
\* listing, and node.get(A) fails with not-found.
C4_CascadingDelete ==
  [][(CalledInTurn("node.delete") /\ HasNode(Before, last'.arg)) =>
       /\ last'.ok
       /\ \A nid \in KnownNids :
            \A edge \in Range(Bucket(store', nid)) : ~Touches(edge, last'.arg)
       /\ last'.arg \notin ListedNids(store')
       /\ ~getNode(store', last'.arg).ok]_vars

\* ------------------------------------------------------------ C5
\* C5: after node.delete(A) of a node created with origin o that has a
\* similarity-search record, o's origin index no longer holds A,
\* node.getByOrigin(o) does not return A, node.similarity.getIndex(A) returns
\* no record, and the other ids of o's origin index are kept.
C5_DeleteCleansOriginAndSimilarity ==
  [][(/\ CalledInTurn("node.delete")
      /\ HasNode(Before, last'.arg)
      /\ IsSome(OriginOf(Before, last'.arg))
      /\ IsSome(getNodeSimilaritySearchInfo(Before, last'.arg))) =>
       LET A == last'.arg
           o == The(OriginOf(Before, A))
       IN /\ \A e \in Range(OriginIndex(store', o)) : e.nid # A
          /\ \A node \in Range(getNodesByOrigin(store', o)) : node.nid # A
          /\ getNodeSimilaritySearchInfo(store', A) = None
          /\ OriginIndex(store', o) = RemoveNids(OriginIndex(Before, o), <<A>>)]_vars

\* ------------------------------------------------------------ C6
\* The nodes created via pipeline epid that exist.
PipelineNodes(st, epid) ==
  {nid \in KnownNids : HasNode(st, nid) /\ PipelineOf(st, nid) = Some([autoIngestion |-> epid])}

\* C6: node.bulkDelete(P) returns the number N of nodes created via P,
\* afterwards node.get fails with not-found for each of them, and P's
\* pipeline index and progress watermark records no longer exist.
C6_BulkDeleteByPipeline ==
  [][CalledInTurn("node.bulkDelete") =>
       LET P == last'.arg
       IN /\ last'.ok
          /\ last'.ret = Some(Cardinality(PipelineNodes(Before, P)))
          /\ \A nid \in PipelineNodes(Before, P) : ~getNode(store', nid).ok
          /\ StoreGet(store', ExtPipelineToNidYek(P)) = None
          /\ StoreGet(store', ExtPipelineYek(P)) = None]_vars

\* ------------------------------------------------------------ C3
\* The entries of a bucket that name the given origin.
EntriesNaming(st, bucketOf, other) ==
  SelectSeq(AssociationBucket(st, bucketOf), LAMBDA v : v.other.id = other.id)

Opposite(direction) == IF direction = "from" THEN "to" ELSE "from"

\* C3: between calls made one at a time, for every entry (direction d, other
\* origin B, type t) of origin A's association bucket, B's bucket holds
\* exactly one entry naming A, and that entry has the opposite direction and
\* the type t.
C3_AssociationMirrored ==
  InTurn =>
    \A A \in AssociatedOrigins :
      \A entry \in Range(AssociationBucket(store, A)) :
        LET mirrors == EntriesNaming(store, entry.other, A)
        IN /\ Len(mirrors) = 1
           /\ mirrors[1].direction = Opposite(entry.direction)
           /\ mirrors[1].association = entry.association

\* A recorded association, on an origin that has another one as well.
C3_Witness ==
  /\ last.op = "association.record" /\ last.writes = <<"set">>
  /\ Len(AssociationBucket(store, last.arg.from)) >= 2
  /\ Len(AssociationBucket(store, last.arg.to)) >= 1
  /\ InTurn

\* ------------------------------------------------------------ C9
\* C9: whenever association.record(A, B, type) returns success,
\* association.get(A) reports A -> B in its 'to' list and association.get(B)
\* reports it in its 'from' list.
C9_RecordedIsReported ==
  [][(CalledInTurn("association.record") /\ last'.ok) =>
       LET A == last'.arg.from
           B == last'.arg.to
           ofA == getAssociations(store', A)
           ofB == getAssociations(store', B)
       IN /\ \E i \in 1..Len(ofA.to) :
               ofA.to[i].from.origin_hash = A.id /\ ofA.to[i].to.origin_hash = B.id
          /\ \E i \in 1..Len(ofB.from) :
               ofB.from[i].from.origin_hash = A.id /\ ofB.from[i].to.origin_hash = B.id]_vars

\* ------------------------------------------------------------ C10
\* C10: association.record(A, B, type) called when A's bucket already names B
\* (an earlier record of the pair succeeded) returns success, issues no
\* substrate write, and leaves exactly one entry naming B in A's bucket and
\* exactly one entry naming A in B's bucket.
C10_RecordIsIdempotent ==
  [][(/\ CalledInTurn("association.record")
      /\ References(AssociationBucket(Before, last'.arg.from), last'.arg.to)) =>
       /\ last'.ok
       /\ last'.writes = <<>>
       /\ store' = Before
       /\ Len(EntriesNaming(store', last'.arg.from, last'.arg.to)) = 1
       /\ Len(EntriesNaming(store', last'.arg.to, last'.arg.from)) = 1]_vars

\* A repeated record of a pair has returned without writing.
C10_Witness ==
  /\ last.op = "association.record" /\ last.ok /\ last.writes = <<>>
  /\ Len(EntriesNaming(store, last.arg.from, last.arg.to)) = 1
  /\ EntriesNaming(store, last.arg.from, last.arg.to)[1].direction = "to"
  /\ InTurn

\* ------------------------------------------------------------ C7
\* The node that node.get returns for the id the last node.create returned,
\* and the arguments of that node.create.
RoundTripNode == The(getNode(store, The(last.ret)).node)
RoundTripArgs == created[The(last.ret)]

\* C7 as stated: node.get(node.create(args).nid) returns a node whose type,
\* text, extended attributes and index text equal the input and whose
\* updated_at equals its created_at (the caller's created_at when given).
C7_RoundTripAsStated ==
  (last.op = "node.create" /\ last.ok) =>
    /\ getNode(store, The(last.ret)).ok
    /\ Some(RoundTripNode.ntype) = RoundTripArgs.ntype
    /\ RoundTripNode.text = RoundTripArgs.text
    /\ RoundTripNode.extattrs = RoundTripArgs.extattrs
    /\ RoundTripNode.index_text = RoundTripArgs.index_text
    /\ RoundTripNode.updated_at = RoundTripNode.created_at
    /\ IsSome(RoundTripArgs.created_at) =>
         RoundTripNode.created_at = Moment(The(RoundTripArgs.created_at))

\* C7, amended: as stated, except that the returned type is NodeType.Text
\* when the arguments name no type.
C7_RoundTrip ==
  (last.op = "node.create" /\ last.ok) =>
    /\ getNode(store, The(last.ret)).ok
    /\ RoundTripNode.ntype =
         (IF IsSome(RoundTripArgs.ntype) THEN The(RoundTripArgs.ntype) ELSE NodeTypeText)
    /\ RoundTripNode.text = RoundTripArgs.text
    /\ RoundTripNode.extattrs = RoundTripArgs.extattrs
    /\ RoundTripNode.index_text = RoundTripArgs.index_text
    /\ RoundTripNode.updated_at = RoundTripNode.created_at
    /\ IsSome(RoundTripArgs.created_at) =>
         RoundTripNode.created_at = Moment(The(RoundTripArgs.created_at))

\* A node created with no type and a creation time other than the clock's.
C7_Witness ==
  /\ last.op = "node.create" /\ last.ok
  /\ RoundTripArgs.ntype = None
  /\ IsSome(RoundTripArgs.created_at) /\ The(RoundTripArgs.created_at) # clock
  /\ IsSome(RoundTripArgs.extattrs) /\ RoundTripArgs.index_text = None

\* ------------------------------------------------------------ C8
\* The creation time of a node, from its canonical record.
CreatedAt(st, nid) == The(StoreGet(st, NidToNodeYek(nid))).value.created_at

\* C8: after any sequence of node.create calls node.getAllNids returns every
\* created id exactly once, ordered by creation time descending.
C8_ListingOrder ==
  InTurn =>
    LET nids == getAllNids(store)
    IN /\ Range(nids) = 1..Len(created)
       /\ Len(nids) = Len(created)
       /\ \A i \in 1..(Len(nids) - 1) :
            CreatedAt(store, nids[i]) >= CreatedAt(store, nids[i + 1])

\* Three nodes listed in an order that is neither the order of the calls nor
\* its reverse.
C8_Witness ==
  /\ InTurn
  /\ Len(created) = 3
  /\ getAllNids(store) \notin {<<1, 2, 3>>, <<3, 2, 1>>}
  /\ CreatedAt(store, 1) # CreatedAt(store, 2)

\* ------------------------------------------------------------ C11
\* The step is the return of a call made while no other call was in flight,
\* and no call was made before it returned: `last` still holds it as made.
CalledAlone(op) ==
  /\ Called(op) /\ pending' = <<>>
  /\ pending = <<>> \/ last.op = "called"

\* The call failed with the consistency-violation error and wrote nothing.
FailsAsInconsistent ==
  /\ ~last'.ok
  /\ last'.ret = Some("Data is unexpectedly inconsistent")
  /\ last'.writes = <<>>
  /\ store' = Before

\* C11 as stated: association.record(from, to, type) called in a state where
\* from's bucket references to but to's bucket does not reference from fails
\* with the consistency-violation error and leaves both buckets unchanged.
C11_ForwardWithoutMirrorFails ==
  [][(/\ CalledAlone("association.record")
      /\ References(AssociationBucket(Before, last'.arg.from), last'.arg.to)
      /\ ~References(AssociationBucket(Before, last'.arg.to), last'.arg.from))
     => FailsAsInconsistent]_vars

\* C11, amended: association.record(from, to, type) called in a state where
\* to's bucket references from but from's bucket does not reference to fails
\* with the consistency-violation error and leaves both buckets unchanged; it
\* neither returns success nor repairs the missing entry.
C11_MirrorWithoutForwardFails ==
  [][(/\ CalledAlone("association.record")
      /\ References(AssociationBucket(Before, last'.arg.to), last'.arg.from)
      /\ ~References(AssociationBucket(Before, last'.arg.from), last'.arg.to))
     => FailsAsInconsistent]_vars

\* A call that met to's bucket naming from, from's bucket not naming to, and
\* failed.
C11_Witness ==
  /\ last.op = "association.record" /\ ~last.ok /\ pending = <<>>
  /\ last.ret = Some("Data is unexpectedly inconsistent")
  /\ References(AssociationBucket(store, last.arg.to), last.arg.from)
  /\ ~References(AssociationBucket(store, last.arg.from), last.arg.to)

\* ------------------------------------------------------------ C12
\* The watermark ingestion.get returns for a pipeline.
Watermark(st, epid) == getUserIngestionProgress(st, epid).ingested_until

\* C12: across any sequence of ingestion.advance calls with any
\* caller-supplied values, the watermark ingestion.get returns for a pipeline
\* never decreases from one call to the next.
C12_WatermarkNeverDecreases ==
  [][CalledInTurn("external.ingestion.advance") =>
       \A epid \in Pipelines : Watermark(store', epid) >= Watermark(Before, epid)]_vars

\* ------------------------------------------------------------ C13
HasProgress(st, epid) == IsSome(StoreGet(st, ExtPipelineYek(epid)))

\* C13: ingestion.get for a pipeline that has no progress record returns a
\* watermark of 0 for that pipeline and no error, and writes nothing.
C13_UnseenPipelineReadsZero ==
  [][(Called("external.ingestion.get") /\ ~HasProgress(store, last'.arg)) =>
       /\ last'.ok
       /\ last'.ret = Some([epid |-> last'.arg, ingested_until |-> 0])
       /\ last'.writes = <<>>
       /\ store' = store]_vars

\* ingestion.get returned 0 for a pipeline whose nodes and progress record a
\* bulk delete has removed.
C13_Witness ==
  /\ last.op = "external.ingestion.get" /\ last.ok
  /\ ~HasProgress(store, last.arg)
  /\ The(last.ret).ingested_until = 0
  /\ \E nid \in KnownNids :
       /\ created[nid].created_via = Some([autoIngestion |-> last.arg])
       /\ ~HasNode(store, nid)

\* ------------------------------------------------------------ C14
RECURSIVE SumSeconds(_)
SumSeconds(attentions) ==
  IF attentions = <<>> THEN 0 ELSE Head(attentions).seconds + SumSeconds(Tail(attentions))

\* C14: every attention event added to an origin adds one entry to the
\* origin's stored attentions list, and the cumulative seconds of attention
\* reported for the origin equal the sum of the seconds of the events added
\* (the entries of the list); a visit report changes neither.
C14_AttentionAccounting ==
  [][CalledInTurn("activity.external.add") =>
       LET origin == last'.arg.origin
           activity == last'.arg.activity
           before == ActivityValue(Before, origin)
           after == ActivityValue(store', origin)
       IN /\ ActivityBranch(activity) = "attention" =>
               /\ after.attentions = Append(before.attentions, The(activity.attention))
               /\ last'.ok /\ The(last'.ret).seconds_of_attention = SumSeconds(after.attentions)
          /\ ActivityBranch(activity) # "attention" => after.attentions = before.attentions
          /\ getExternalUserActivity(store', origin).seconds_of_attention
               = SumSeconds(after.attentions)]_vars

\* Attention events of 5 and 7 seconds were added to an origin: the total is
\* 12 and the list has two entries.
C14_Witness ==
  /\ last.op = "activity.external.add" /\ last.ok
  /\ LET value == ActivityValue(store, last.arg.origin)
     IN /\ Len(value.attentions) = 2
        /\ value.attentions[1].seconds = 5 /\ value.attentions[2].seconds = 7
        /\ The(last.ret).seconds_of_attention = 12
  /\ InTurn

\* ------------------------------------------------------------ C15
\* C15: a batch get over any list of ids (YekLavStore.get with a key list,
\* node.batch.get) returns exactly the records of the requested ids that
\* exist: an id with no record gives no entry, no placeholder and no error.
C15_BatchGetSkipsMissing ==
  [][Called("node.batch.get") =>
       LET nids == last'.arg
           yeks == [i \in 1..Len(nids) |-> NidToNodeYek(nids[i])]
           yeklavs == StoreGetBatch(store, yeks)
           nodes == The(last'.ret).nodes
           existing == {nid \in Range(nids) : HasNode(store, nid)}
       IN /\ last'.ok /\ store' = store
          /\ Len(yeklavs) = Cardinality(existing)
          /\ {yeklavs[i].yek.key : i \in 1..Len(yeklavs)} = existing
          /\ \A i \in 1..Len(yeklavs) : yeklavs[i].lav = store[stringify(yeklavs[i].yek)]
          /\ Len(nodes) = Cardinality(existing)
          /\ {nodes[i].nid : i \in 1..Len(nodes)} = existing]_vars

\* A batch get that asked for a node that exists and, before it, for one that
\* does not.
C15_Witness ==
  /\ last.op = "node.batch.get" /\ last.ok
  /\ Len(last.arg) = 2
  /\ ~HasNode(store, last.arg[1]) /\ HasNode(store, last.arg[2])
  /\ Len(The(last.ret).nodes) = 1

\* ------------------------------------------------------------ C16
\* C16: YekLavStore.set rejects with an error and writes nothing when a pair
\* of the batch has a key kind different from its value kind or when two
\* entries of the batch map to the same substrate key; otherwise it performs
\* exactly one bulk write that holds every entry of the batch (and nothing
\* else changes).
C16_SetRejectsOrWritesAll ==
  [][Called("store.set") =>
       LET items == last'.arg
           mismatched == \E i \in 1..Len(items) : items[i].yek.kind # items[i].lav.kind
           repeated == \E i, j \in 1..Len(items) :
                         i # j /\ stringify(items[i].yek) = stringify(items[j].yek)
           keys == {stringify(items[i].yek) : i \in 1..Len(items)}
       IN IF mismatched \/ repeated
          THEN ~last'.ok /\ last'.writes = <<>> /\ store' = store
          ELSE /\ last'.ok /\ last'.writes = <<"set">>
               /\ DOMAIN store' = DOMAIN store \cup keys
               /\ \A i \in 1..Len(items) : store'[stringify(items[i].yek)] = items[i].lav
               /\ \A k \in DOMAIN store \ keys : store'[k] = store[k]]_vars

\* A batch naming one key twice, each time with a value of the key's kind,
\* was rejected over a store that earlier batches have written to.
C16_Witness ==
  /\ last.op = "store.set" /\ ~last.ok /\ Len(last.arg) = 2
  /\ last.arg[1].yek = last.arg[2].yek
  /\ last.arg[1].yek.kind = last.arg[1].lav.kind
  /\ last.arg[2].yek.kind = last.arg[2].lav.kind
  /\ DOMAIN store # {}

\* ------------------------------------------------------------ C17
\* C17: node.get(id) and node.update(args) for an id that has no canonical
\* record fail with the not-found error, write nothing to the substrate and
\* emit no notification; the failed call is one attempt.
C17_MissingNodeIsNotFound ==
  [][(/\ CalledInTurn("node.get") \/ CalledInTurn("node.update")
      /\ ~HasNode(Before, last'.arg)) =>
       /\ ~last'.ok /\ last'.ret = NotFound
       /\ last'.writes = <<>> /\ last'.events = <<>>
       /\ store' = Before]_vars

\* node.update of a node that was created and has been deleted.
C17_Witness ==
  /\ last.op = "node.update" /\ ~last.ok
  /\ last.arg \in KnownNids /\ ~HasNode(store, last.arg)
  /\ InTurn

\* ------------------------------------------------------------ C18
\* C18: each unimplemented operation of the facade (blob upload, blob source
\* url, blob-index build, edge.sticky, edge.delete, node.url) fails at once
\* with an error that names the operation, in every state, and leaves the
\* substrate unchanged: it issues no read-modify-write.
C18_UnimplementedFails ==
  [][\A endpoint \in {"blob.upload", "blob.sourceUrl", "blob_index.build",
                       "edge.sticky", "edge.delete", "node.url"} :
       Called(endpoint) =>
         /\ ~last'.ok
         /\ last'.ret = Some("Attempted to call an " \o endpoint
                             \o " endpoint of browser extension's local StorageApi"
                             \o " which hasn't been implemented yet")
         /\ last'.writes = <<>> /\ last'.events = <<>>
         /\ store' = store]_vars

\* edge.delete was called, and failed, over a store that holds a node.
C18_Witness ==
  /\ last.op = "edge.delete" /\ ~last.ok
  /\ \E nid \in KnownNids : HasNode(store, nid)

\* ------------------------------------------------------------ C19
\* C19: node.bulkDelete invoked with a selector other than 'created via
\* automated pipeline' fails with an error before any substrate read, remove
\* or set, so the store is unchanged.
C19_OtherSelectorFails ==
  [][(Called("node.bulkDelete") /\ last'.arg \notin Pipelines) =>
       /\ ~last'.ok
       /\ last'.ret = Some("Tried to bulk-delete nodes via an unimplemented criteria")
       /\ last'.writes = <<>> /\ last'.events = <<>>
       /\ store' = store]_vars

\* node.bulkDelete with another selector failed over a store that holds a
\* pipeline's node and watermark.
C19_Witness ==
  /\ last.op = "node.bulkDelete" /\ ~last.ok /\ last.arg \in OtherSelectors
  /\ \E epid \in Pipelines : HasProgress(store, epid) /\ PipelineNids(store, epid) # <<>>

\* ------------------------------------------------------------ C20
\* C20: the results of successive next() calls are determined only by the id
\* listing snapshotted at construction.  Whatever node.create and node.delete
\* calls completed since, next() does not fail: it returns the node of the
\* next id of the snapshot and moves on, and returns the end-of-sequence
\* marker once the snapshot is exhausted.
C20_NextFollowsSnapshot ==
  [][CalledInTurn("iterator.next") =>
       LET nids == The(iter).nids
           index == The(iter).index
       IN /\ last'.ok
          /\ The(iter').nids = nids
          /\ IF index >= Len(nids)
             THEN last'.ret = None /\ The(iter').index = index
             ELSE /\ IsSome(last'.ret) /\ The(last'.ret).nid = nids[index + 1]
                  /\ The(iter').index = index + 1]_vars

\* ------------------------------------------------------------ C21
\* The iterator has no id left to visit.
Exhausted(it) == it.index >= Len(it.nids)

\* C21: after Iterator.abort() every later next() returns the end-of-sequence
\* marker; a second abort() leaves the iterator as the first left it; and
\* abort() on an already exhausted iterator changes nothing observable: the
\* results of next() and the value of total().
C21_AbortIsQuietEnd ==
  [][/\ CalledInTurn("iterator.abort") =>
          /\ Exhausted(The(iter'))
          /\ The(iter).nids = <<>> => iter' = iter
          /\ Exhausted(The(iter)) => IteratorTotal(The(iter')) = IteratorTotal(The(iter))
     /\ (CalledInTurn("iterator.next") /\ The(iter).nids = <<>>) =>
          last'.ok /\ last'.ret = None /\ iter' = iter]_vars

\* ------------------------------------------------------------ C22
\* C22: with no mutation after construction, an iterator over a listing of n
\* nodes returns on its first n next() calls the canonical nodes in the order
\* of the global listing (creation time descending), one per call, and the
\* end-of-sequence marker on every later call; total() starts at 0 and
\* counts the nodes returned so far.
C22_IteratesListingInOrder ==
  [][/\ CalledInTurn("node.iterate") => IteratorTotal(The(iter')) = 0
     /\ CalledInTurn("iterator.next") =>
          LET listing == getAllNids(store)
              returned == IteratorTotal(The(iter))
          IN /\ last'.ok
             /\ \A i \in 1..(Len(listing) - 1) :
                  CreatedAt(store, listing[i]) >= CreatedAt(store, listing[i + 1])
             /\ IF returned < Len(listing)
                THEN /\ last'.ret = getNode(store, listing[returned + 1]).node
                     /\ IsSome(last'.ret)
                     /\ IteratorTotal(The(iter')) = returned + 1
                ELSE /\ last'.ret = None
                     /\ IteratorTotal(The(iter')) = returned]_vars

\* An iterator over two nodes, the older one created last, has returned both
\* and then the end-of-sequence marker.
C22_Witness ==
  /\ last.op = "iterator.next" /\ last.ok /\ last.ret = None
  /\ IsSome(iter) /\ The(iter).nids = <<1, 2>> /\ IteratorTotal(The(iter)) = 2
  /\ CreatedAt(store, 1) > CreatedAt(store, 2)
  /\ InTurn

\* ------------------------------------------------------------ C23
\* C23: the engine does no locking.  When a node.create call in flight ends,
\* it returns success and the global listing becomes the listing that call
\* read plus its own id, whatever was written since: when two calls both read
\* the listing before either writes, both return success and the first
\* writer's listing entry is overwritten by the second.
C23_LastWriterWinsListing ==
  [][(Called("node.create") /\ Len(pending') < Len(pending)) =>
       \E i \in 1..Len(pending) :
         /\ pending[i].op = "node.create"
         /\ pending' = Without(pending, i)
         /\ last'.ok /\ last'.ret = Some(pending[i].arg.nid)
         /\ HasNode(store', pending[i].arg.nid)
         /\ ListedNids(store') = ListedNids(pending[i].given) \cup {pending[i].arg.nid}]_vars

\* Two node.create calls have read the listing before either wrote and both
\* have returned: both nodes exist and the listing holds one of them.
C23_Witness ==
  /\ pending = <<>> /\ last.op = "node.create" /\ last.ok
  /\ HasNode(store, 1) /\ HasNode(store, 2)
  /\ Cardinality(ListedNids(store)) = 1
  /\ \A nid \in {1, 2} : Bucket(store, nid) = <<>> /\ OriginOf(store, nid) = None

\* ------------------------------------------------------------ C24
\* The nodes created with the given origin that have not been deleted (a
\* deleted node is one whose canonical record a node.delete has removed).
LiveNodesOf(origin) ==
  {nid \in KnownNids : created[nid].origin = Some(origin) /\ HasNode(store, nid)}

\* C24: after any sequence of node.create and node.delete calls run one at a
\* time, node.getByOrigin(o) returns exactly the nodes that were created with
\* origin o and not deleted, each once; it returns an empty list, not an
\* error, when o has no index entry, and it skips without error an indexed id
\* whose canonical record is missing.
C24_ByOriginReturnsLiveNodes ==
  [][CalledInTurn("node.getByOrigin") =>
       LET origin == last'.arg
           nodes == The(last'.ret)
       IN /\ last'.ok /\ store' = Before
          /\ {nodes[i].nid : i \in 1..Len(nodes)} = LiveNodesOf(origin)
          /\ Len(nodes) = Cardinality(LiveNodesOf(origin))
          /\ \A i \in 1..Len(nodes) : nodes[i] = The(getNode(store, nodes[i].nid).node)
          /\ StoreGet(store, OriginToNidYek(origin)) = None => nodes = <<>>]_vars

\* node.getByOrigin returned one node for an origin whose index holds two
\* ids, one of them of a node whose canonical record is gone.
C24_Witness ==
  /\ last.op = "node.getByOrigin" /\ last.ok
  /\ Len(The(last.ret)) = 1
  /\ Len(OriginIndex(store, last.arg)) = 2
  /\ InTurn

\* ------------------------------------------------------------ C25
\* C25: the key codec is collision-free: two keys of different kinds never
\* map to the same substrate string, and two keys of the same kind map to the
\* same string exactly when their key payloads are equal.
C25_CodecIsCollisionFree ==
  last.op = "stringify" =>
    LET a == last.arg[1]
        b == last.arg[2]
        strings == The(last.ret)
    IN /\ a.kind # b.kind => strings[1] # strings[2]
       /\ a.kind = b.kind => (strings[1] = strings[2] <=> a.key = b.key)

\* The codec was applied to the pipeline progress key and the pipeline index
\* key of one pipeline.
C25_Witness ==
  /\ last.op = "stringify"
  /\ last.arg[1].kind = "ext-pipe-id->progress" /\ last.arg[2].kind = "ext-pipe-id->nid"
  /\ last.arg[1].key = last.arg[2].key

\* ------------------------------------------------------------ C26
\* The positions of the steps of one kind in the steps of a call.
StepsOf(steps, call) == {i \in 1..Len(steps) : steps[i].call = call}

\* C26: node.create issues exactly one set call, after all of its reads and
\* with no other write; when the call fails the substrate is left as it was and
\* no 'created' event is registered; when it succeeds the event is registered
\* once, after the set call.
C26_CreateWritesOnceThenNotifies ==
  [][CalledInTurn("node.create") =>
       LET steps == last'.steps
           sets == StepsOf(steps, "set")
           events == StepsOf(steps, "registerEvent")
       IN /\ Cardinality(sets) = 1
          /\ StepsOf(steps, "remove") = {}
          /\ \A i \in StepsOf(steps, "get"), j \in sets : i < j
          /\ last'.writes = IF last'.ok THEN <<"set">> ELSE <<>>
          /\ IF last'.ok
             THEN /\ Cardinality(events) = 1
                  /\ \A i \in events, j \in sets : j < i
                  /\ Len(last'.events) = 1 /\ last'.events[1].type = "created"
                  /\ last'.events[1].nid = The(last'.ret)
                  /\ HasNode(store', The(last'.ret))
             ELSE /\ events = {} /\ last'.events = <<>>
                  /\ store' = Before]_vars

\* A node.create whose set call was rejected, after reading the listing and a
\* neighbour's bucket.
C26_Witness ==
  /\ last.op = "node.create" /\ ~last.ok
  /\ Cardinality(StepsOf(last.steps, "get")) >= 2
  /\ StepsOf(last.steps, "set") # {}
  /\ InTurn

\* ------------------------------------------------------------ C27
\* C27: node.delete registers 'will-delete' before any substrate read or
\* write, then makes all of its reads, then exactly one remove call (canonical
\* record, own adjacency bucket, similarity record), and only after that
\* exactly one set call.
C27_DeleteNotifiesReadsRemovesSets ==
  [][CalledInTurn("node.delete") =>
       LET steps == last'.steps
           nid == last'.arg
           gets == StepsOf(steps, "get")
           removes == StepsOf(steps, "remove")
           sets == StepsOf(steps, "set")
       IN /\ StepsOf(steps, "registerEvent") = {1}
          /\ steps[1].keys = <<"will-delete">>
          /\ last'.events = <<NodeEvent("will-delete", nid, None)>>
          /\ gets # {}
          /\ Cardinality(removes) = 1 /\ Cardinality(sets) = 1
          /\ \A i \in removes :
                Range(steps[i].keys) = {stringify(NidToNodeYek(nid)),
                                        stringify(NidToEdgeYek(nid)),
                                        stringify(NidToNodeSimilaritySearchInfoYek(nid))}
          /\ \A i \in gets, j \in removes : i < j
          /\ \A i \in removes, j \in sets : i < j]_vars

\* A node.delete that read the buckets of the node and of a neighbour, the
\* listing, the canonical record and the origin index, and succeeded.
C27_Witness ==
  /\ last.op = "node.delete" /\ last.ok
  /\ Cardinality(StepsOf(last.steps, "get")) >= 5
  /\ \E i \in StepsOf(last.steps, "set") : Len(last.steps[i].keys) >= 3
  /\ InTurn

\* ------------------------------------------------------------ C28
\* The entries of an array-valued record that match removal criteria: listing
\* and index entries by their id, edges by either endpoint.
Matches(kind, entry, criteria) ==
  IF kind = "nid->edge"
  THEN Contains(criteria, entry.from_nid) \/ Contains(criteria, entry.to_nid)
  ELSE Contains(criteria, entry.nid)

\* C28: prepareAppend and prepareRemoval leave the substrate unchanged and
\* write nothing; the record prepareAppend proposes holds the current entries
\* (none when there is no record) followed by the appended ones, and the
\* record prepareRemoval proposes for the listing, an origin index or an
\* adjacency bucket holds the current entries without the matching ones.
C28_PrepareOnlyProposes ==
  [][(Called("store.prepareAppend") \/ Called("store.prepareRemoval")) =>
       LET yek == last'.arg.yek
           current == IF stringify(yek) \in DOMAIN store THEN store[stringify(yek)].value
                      ELSE <<>>
       IN /\ store' = store
          /\ last'.writes = <<>>
          /\ last'.ok /\ last'.op = "store.prepareAppend" =>
               /\ The(last'.ret).yek = yek
               /\ The(last'.ret).lav.value = current \o last'.arg.lav.value
          /\ (/\ last'.ok /\ last'.op = "store.prepareRemoval"
              /\ yek.kind \in {"all-nids", "origin->nid", "nid->edge"}) =>
               /\ The(last'.ret).yek = yek
               /\ The(last'.ret).lav.value =
                    SelectSeq(current, LAMBDA e : ~Matches(yek.kind, e, last'.arg.criteria))]_vars

\* prepareRemoval proposed a shorter origin index than the stored one, which
\* holds entries that an earlier proposal of prepareAppend put there.
C28_Witness ==
  /\ last.op = "store.prepareRemoval" /\ last.ok
  /\ last.arg.yek.kind = "origin->nid"
  /\ stringify(last.arg.yek) \in DOMAIN store
  /\ Len(store[stringify(last.arg.yek)].value) = 2
  /\ Len(The(last.ret).lav.value) = 1

\* ------------------------------------------------------------ C29
\* C29: prepareRemoval applied to a key of a kind its criteria do not cover
\* (any kind other than the listing, the origin index and the adjacency
\* bucket) fails, whether or not a record exists under that key, and returns
\* no proposed record.
C29_UncoveredKindFails ==
  [][(/\ Called("store.prepareRemoval")
      /\ last'.arg.yek.kind \notin {"all-nids", "origin->nid", "nid->edge"})
     => ~last'.ok /\ last'.ret = None]_vars

\* ------------------------------------------------------------ C30
\* C30: node.update of an existing node writes exactly one record, the node's
\* canonical record: text and index text take the supplied values (an omitted
\* one keeps its old value), updated_at becomes the current time (the time the
\* handler reads once it has the record) unless preserve_update_time is set,
\* and the node's id, created_at and type, the listing, every index and every
\* adjacency bucket stay as they were.
C30_UpdateWritesOnlyTheNode ==
  [][(CalledInTurn("node.update") /\ HasNode(Before, last'.arg)) =>
       LET args == last'.args
           key == stringify(NidToNodeYek(args.nid))
           old == Before[key]
           new == store'[key]
       IN /\ last'.ok /\ last'.writes = <<"set">>
          /\ pending[1].arg.now <= clock
          /\ DOMAIN store' = DOMAIN Before
          /\ \A k \in DOMAIN Before \ {key} : store'[k] = Before[k]
          /\ new.value.text = IF IsSome(args.text) THEN The(args.text) ELSE old.value.text
          /\ new.value.index_text = IF IsSome(args.index_text) THEN args.index_text
                                    ELSE old.value.index_text
          /\ new.value.updated_at = IF args.preserve_update_time THEN old.value.updated_at
                                    ELSE pending[1].arg.now
          /\ new.value.nid = old.value.nid
          /\ new.value.created_at = old.value.created_at
          /\ new.value.ntype = old.value.ntype
          /\ new.value.extattrs = old.value.extattrs
          /\ new.kind = old.kind /\ new.auxiliary = old.auxiliary]_vars

\* An update that kept the update time of a node created earlier, changed its
\* text and left its index text, while the node has an origin and an edge.
C30_Witness ==
  /\ last.op = "node.update" /\ last.ok
  /\ last.args.preserve_update_time /\ IsSome(last.args.text) /\ last.args.index_text = None
  /\ clock > CreatedAt(store, last.arg)
  /\ The(StoreGet(store, NidToNodeYek(last.arg))).value.updated_at < clock
  /\ IsSome(OriginOf(store, last.arg))
  /\ Bucket(store, last.arg) # <<>>
  /\ InTurn

\* ------------------------------------------------------------ C31
\* C31: node.delete leaves the pipeline index as it was, and a
\* node.bulkDelete(P) called while P's index names ids of nodes already
\* deleted one by one completes without error and returns the number of ids
\* in the index, those ids included.
C31_BulkDeleteCountsDeletedIds ==
  [][/\ CalledInTurn("node.delete") =>
          \A epid \in Pipelines :
            StoreGet(store', ExtPipelineToNidYek(epid))
              = StoreGet(Before, ExtPipelineToNidYek(epid))
     /\ (/\ CalledInTurn("node.bulkDelete")
         /\ \E i \in 1..Len(PipelineNids(Before, last'.arg)) :
              ~HasNode(Before, PipelineNids(Before, last'.arg)[i]))
        => /\ last'.ok
           /\ last'.ret = Some(Len(PipelineNids(Before, last'.arg)))]_vars

\* ------------------------------------------------------------ C32
\* The node ids of the entries of an array-valued record, in stored order.
IndexedNids(st, yek) ==
  [i \in 1..Len(ValueOrEmpty(st, yek)) |-> ValueOrEmpty(st, yek)[i].nid]

NoRepeat(s) == \A i, j \in 1..Len(s) : i < j => s[i] # s[j]

\* C32: with node.create, node.delete and node.bulkDelete run one at a time,
\* the global listing holds at most one NodeTag per node id, and every origin
\* index and pipeline index holds each node id at most once.
C32_NoDuplicateIds ==
  InTurn =>
    /\ NoRepeat(IndexedNids(store, AllNidsYek))
    /\ \A origin \in Origins : NoRepeat(IndexedNids(store, OriginToNidYek(origin)))
    /\ \A epid \in Pipelines : NoRepeat(IndexedNids(store, ExtPipelineToNidYek(epid)))

\* Two nodes of one origin and one pipeline are listed and indexed.
C32_Witness ==
  /\ Len(IndexedNids(store, AllNidsYek)) = 2
  /\ \E origin \in Origins : Len(IndexedNids(store, OriginToNidYek(origin))) = 2
  /\ \E epid \in Pipelines : Len(IndexedNids(store, ExtPipelineToNidYek(epid))) = 2
  /\ InTurn

\* ------------------------------------------------------------ C33
\* C33: the batch of proposed records that node.delete and node.bulkDelete
\* pass to set never holds two records for one substrate key, so the set call
\* is never rejected after the remove call has been applied.
C33_RemovalPlanHasNoDuplicateKey ==
  [][(CalledInTurn("node.delete") \/ CalledInTurn("node.bulkDelete")) =>
       LET nids == IF last'.op = "node.delete" THEN <<last'.arg>>
                   ELSE PipelineNids(Before, last'.arg)
       IN /\ ~SetDuplicate(Items(prepareNodeRemoval(Before, Before, nids).toSet))
          /\ last'.writes # <<"remove">>]_vars

\* ------------------------------------------------------------ C34
\* The substrate keys that are keyed by a node id.
KeysOfNode(nid) ==
  {stringify(NidToNodeYek(nid)), stringify(NidToEdgeYek(nid)),
   stringify(NidToNodeSimilaritySearchInfoYek(nid))}

\* C34: after node.bulkDelete(P) succeeds no substrate record keyed by a
\* deleted node id remains (canonical record, adjacency bucket, similarity
\* record), also when two of the deleted nodes were linked to each other.
C34_BulkDeleteLeavesNoNodeRecord ==
  [][(CalledInTurn("node.bulkDelete") /\ last'.ok) =>
       \A nid \in Range(PipelineNids(Before, last'.arg)) :
         KeysOfNode(nid) \cap DOMAIN store' = {}]_vars

\* ------------------------------------------------------------ C35
\* The error of set for a batch that names a key twice.
DuplicateKeyError == Some("Attempted to set more than 1 value")

\* C35: edge.create(from, to) with from = to, and node.create whose neighbour
\* lists name one neighbour id more than once, fail with the duplicate-key
\* error of set and write nothing to the substrate.
C35_RepeatedNeighbourIsRejected ==
  [][(\/ CalledInTurn("edge.create") /\ last'.arg.from = last'.arg.to
      \/ CalledInTurn("node.create") /\ ~NoRepeat(last'.args.from_nid \o last'.args.to_nid))
     => /\ ~last'.ok /\ last'.ret = DuplicateKeyError
        /\ last'.writes = <<>>
        /\ store' = Before]_vars

\* A node.create that named an existing node as inbound and as outbound
\* neighbour has failed.
C35_Witness ==
  /\ last.op = "node.create" /\ ~last.ok
  /\ Len(last.args.from_nid) = 1 /\ last.args.from_nid = last.args.to_nid
  /\ HasNode(store, last.args.from_nid[1])
  /\ InTurn

\* ------------------------------------------------------------ C36
\* Every entry of every association bucket has an entry of the opposite
\* direction in the bucket of the origin it names.
EveryEntryMirrored(st) ==
  \A A \in AssociatedOrigins :
    \A entry \in Range(AssociationBucket(st, A)) :
      \E mirror \in Range(EntriesNaming(st, entry.other, A)) :
        mirror.direction = Opposite(entry.direction)

\* C36: under any interleaving of association.record calls that share an
\* origin, once all of them have returned every bucket entry has its mirror
\* in the other origin's bucket, and a later record of any pair does not fail
\* with the consistency-violation error.
C36_OverlapKeepsMirrors ==
  [][/\ pending' = <<>> => EveryEntryMirrored(store')
     /\ CalledAlone("association.record") =>
          last'.ret # Some("Data is unexpectedly inconsistent")]_vars

\* The entry a recordAssociation call appends to the bucket of `origin`, one
\* of its two origins.
OwnEntry(arg, origin) ==
  IF origin = arg.from
  THEN AssociationValue("to", arg.to, arg.association)
  ELSE AssociationValue("from", arg.from, arg.association)

\* C36, amended: the engine does no locking.  (1) An association.record
\* call that writes stores its two buckets as the call read them, each with the
\* call's own entry appended, and changes no other bucket.  (2) An entry that
\* was written to one of the two buckets after the call read it, other than
\* an entry equal to the call's own, is gone from the bucket after the write,
\* while the bucket of every third origin, where the mirror of such an entry
\* may lie, is as it was.  (3) In a state where to's bucket names from and
\* from's bucket does not name to, association.record(from, to) made while no
\* other call is in flight fails with the consistency-violation error and
\* writes nothing, and association.record(to, from) returns success and
\* writes nothing: the missing entry is not restored.
C36_WriteStoresWhatWasRead ==
  [][/\ (/\ Called("association.record") /\ Len(pending') < Len(pending)
         /\ last'.writes = <<"set">>) =>
          \E i \in 1..Len(pending) :
            LET call == pending[i]
                both == {call.arg.from, call.arg.to}
            IN /\ pending' = Without(pending, i)
               /\ last'.ok /\ last'.arg = call.arg
               /\ \A origin \in both :
                    AssociationBucket(store', origin) =
                      Append(AssociationBucket(call.seen, origin), OwnEntry(call.arg, origin))
               /\ \A origin \in AssociatedOrigins \ both :
                    AssociationBucket(store', origin) = AssociationBucket(store, origin)
               /\ \A origin \in both :
                    \A entry \in Range(AssociationBucket(store, origin)) :
                      (/\ entry \notin Range(AssociationBucket(call.seen, origin))
                       /\ entry # OwnEntry(call.arg, origin)) =>
                        entry \notin Range(AssociationBucket(store', origin))
     /\ (/\ CalledAlone("association.record")
         /\ References(AssociationBucket(Before, last'.arg.to), last'.arg.from)
         /\ ~References(AssociationBucket(Before, last'.arg.from), last'.arg.to)) =>
          FailsAsInconsistent
     /\ (/\ CalledAlone("association.record")
         /\ References(AssociationBucket(Before, last'.arg.from), last'.arg.to)
         /\ ~References(AssociationBucket(Before, last'.arg.to), last'.arg.from)) =>
          last'.ok /\ last'.writes = <<>> /\ store' = Before]_vars

\* record(A, B) and record(A, C) overlapped and both returned success, the
\* later write dropped the entry naming B from A's bucket and left its mirror
\* in B's bucket, and a record(A, B) made after them has just failed with the
\* consistency-violation error.
C36_Witness ==
  /\ pending = <<>> /\ last.op = "association.record" /\ ~last.ok
  /\ last.ret = Some("Data is unexpectedly inconsistent")
  /\ last.arg.from # last.arg.to
  /\ References(AssociationBucket(store, last.arg.to), last.arg.from)
  /\ ~References(AssociationBucket(store, last.arg.from), last.arg.to)
  /\ \E C \in AssociatedOrigins \ {last.arg.from, last.arg.to} :
       /\ References(AssociationBucket(store, last.arg.from), C)
       /\ References(AssociationBucket(store, C), last.arg.from)

\* ------------------------------------------------------------ C37
\* C37: under any interleaving of activity add calls, in every reachable
\* state the stored total_seconds_of_attention of an origin equals the sum of
\* the seconds of the entries of its stored attentions list.
C37_TotalMatchesStoredAttentions ==
  \A origin \in Origins :
    ActivityValue(store, origin).total_seconds_of_attention
      = SumSeconds(ActivityValue(store, origin).attentions)

\* An update was lost: a call in flight was served an attentions list that
\* the stored list, written by another call since, does not start with.
C37_Witness ==
  /\ last.op = "activity.external.add" /\ last.ok
  /\ \E i \in 1..Len(pending) :
       LET seen == ActivityValue(pending[i].seen, pending[i].arg.origin).attentions
           stored == ActivityValue(store, pending[i].arg.origin).attentions
       IN /\ seen # <<>> /\ stored # <<>>
          /\ seen[1].seconds # stored[1].seconds

\* ------------------------------------------------------------ C38
\* C38: with node.create, edge.create, node.delete and node.bulkDelete run
\* one at a time, every edge stored in an adjacency bucket has both endpoints
\* naming nodes that have a canonical record, and no adjacency bucket is
\* stored for a node id that has none.
C38_EdgesNameExistingNodes ==
  InTurn =>
    \A nid \in 1..(MaxNodes + 1) :
      /\ \A edge \in Range(Bucket(store, nid)) :
           HasNode(store, edge.from_nid) /\ HasNode(store, edge.to_nid)
      /\ IsSome(StoreGet(store, NidToEdgeYek(nid))) => HasNode(store, nid)

\* ------------------------------------------------------------ C39
\* The canonical record of the node holds a text or an index text other than
\* the one the node was created with: node.update has written it.
Updated(st, nid) ==
  LET value == The(StoreGet(st, NidToNodeYek(nid))).value
  IN value.text # created[nid].text \/ value.index_text # created[nid].index_text

\* C39: node.update keeps the origin and creation-pipeline tags stored with
\* the canonical record, so node.delete of a node created with origin o,
\* after node.update calls on it, succeeds and removes the node's id from o's
\* origin index.
C39_UpdateKeepsTags ==
  [][/\ (CalledInTurn("node.update") /\ HasNode(Before, last'.arg)) =>
          /\ OriginOf(store', last'.arg) = created[last'.arg].origin
          /\ PipelineOf(store', last'.arg) = created[last'.arg].created_via
     /\ (/\ CalledInTurn("node.delete") /\ HasNode(Before, last'.arg)
         /\ IsSome(created[last'.arg].origin)
         /\ Updated(Before, last'.arg)) =>
          /\ last'.ok
          /\ ~Contains(IndexedNids(store', OriginToNidYek(The(created[last'.arg].origin))),
                       last'.arg)]_vars

\* ------------------------------------------------------------ C40
\* C40: node.delete(id) for an id that has no canonical record returns an
\* acknowledgement without error and leaves every canonical node record, the
\* set of ids in the global listing, every origin index and every stored edge
\* unchanged.
C40_DeleteOfMissingNodeChangesNothing ==
  [][(CalledInTurn("node.delete") /\ ~HasNode(Before, last'.arg)) =>
       /\ last'.ok
       /\ \A nid \in KnownNids :
            /\ StoreGet(store', NidToNodeYek(nid)) = StoreGet(Before, NidToNodeYek(nid))
            /\ Bucket(store', nid) = Bucket(Before, nid)
       /\ ListedNids(store') = ListedNids(Before)
       /\ \A origin \in Origins :
            IndexedNids(store', OriginToNidYek(origin))
              = IndexedNids(Before, OriginToNidYek(origin))]_vars
====
